---- MODULE Spec2Model ----
(***************************************************************************)
(* indexed-db-as-promised: the SyncPromise primitive, the Request bridge,  *)
(* the Transaction run scope and the cursor iteration protocol.            *)
(*                                                                         *)
(* JavaScript runs one turn at a time.  A turn is one action of this       *)
(* module: a call made by application code, or one event the host          *)
(* dispatches.  Everything the turn calls synchronously (reactions flushed *)
(* by adopt, handlers, nested then calls) is evaluated inside the action   *)
(* by the recursive operators below, which thread the heap `w` through.    *)
(***************************************************************************)
EXTENDS Integers, Sequences, FiniteSets, TLC

VARIABLES
  promise,    \* heap of SyncPromise objects: _state, _value, the `called` flag of the constructor's
              \* doResolve, and (for the properties) the turn `at` which adopt last set the state
  queue,      \* heap of reaction arrays (the [] a pending promise holds in _value; shared after adoption)
  fns,        \* application functions (handlers, resolvers): what each does when invoked
  calls,      \* every invocation of an application function: which, with what argument, in which turn
  resolvers,  \* promises whose resolve/reject the application kept: the first call it made on each
  thens,      \* every then call of the application: receiver, its state at the call, the two handlers
  req,        \* the host's IDBRequest objects: readyState, result, error, onsuccess, onerror
  idb,        \* the host's IDBTransaction: lifetime state, pending requests, event handlers
  tx,         \* the wrapper Transaction: its class, ran_ and promise_
  stores,     \* number of ObjectStore wrappers constructed
  trace,      \* host events and calls of the wrapper's own callbacks, with the turn of each
  runs,       \* every tx.run(callback).then(onFulfilled, onRejected) the application made
  cursor,     \* the host's IDBCursor with its request, and the CursorRequest wrapper iterating it
  arrays,     \* the arrays allocated by the wrapper: the results of an iteration
  guards,     \* the `called` flags of doResolve invocations that met a thenable
  opened,     \* the outcomes of the tx.objectStore(name) calls the application made outside a callback
  readopted,  \* adopt ran on a promise that was no longer pending
  hung,       \* a call never returned: adopt's loop pushes on the array it iterates
  turn        \* number of turns taken

vars == <<promise, queue, fns, calls, resolvers, thens, req, idb, tx, stores, trace, runs, cursor,
          arrays, guards, opened, readopted, hung, turn>>

----------------------------------------------------------------------------
(* Bounds *)

MaxTurns == 4
MaxPromises == 5

----------------------------------------------------------------------------
(* JavaScript values.  Every value is a record of the same shape. *)

Undefined == [k |-> "undefined", n |-> 0]
TypeError == [k |-> "TypeError", n |-> 0]
ReferenceError == [k |-> "ReferenceError", n |-> 0]
Sentinel == [k |-> "sentinel", n |-> 0]          \* this.sentinel = {} of src/transaction.js
Num(i) == [k |-> "value", n |-> i]
Err(i) == [k |-> "error", n |-> i]
PromiseRef(p) == [k |-> "SyncPromise", n |-> p]
QueueRef(q) == [k |-> "queue", n |-> q]
Null == [k |-> "null", n |-> 0]
EventRef(r) == [k |-> "event", n |-> r]          \* an event whose target is request r
TransactionRef == [k |-> "Transaction", n |-> 0]
False == [k |-> "boolean", n |-> 0]
True == [k |-> "boolean", n |-> 1]
IDBCursor(pos) == [k |-> "IDBCursor", n |-> pos]   \* the host cursor, at the record at pos
CursorRef(pos) == [k |-> "Cursor", n |-> pos]      \* the wrapper Cursor, its value that of pos
RequestRef(p) == [k |-> "Request", n |-> p]        \* a wrapper Request, known by its promise_
ArrayRef(a) == [k |-> "Array", n |-> a]
Thenable(i) == [k |-> "thenable", n |-> i]         \* an object with a then method, not a SyncPromise
\* !value
Falsy(value) == value \in {Undefined, Null, False, Num(0)}
AlreadyRun == [k |-> "Error", n |-> 1]           \* 'Transaction has already run.'
OutsideRun == [k |-> "Error", n |-> 2]           \* 'Cannot access objectStore outside of the #run block.'
TransactionInactiveError == [k |-> "DOMException", n |-> 1]
InvalidStateError == [k |-> "DOMException", n |-> 2]
AbortError == [k |-> "DOMException", n |-> 3]

Fn(f, a, v) == [f |-> f, a |-> a, v |-> v]
NoFn == Fn("undefined", 0, Undefined)
UserFn(h) == Fn("user", h, Undefined)

\* The foreign thenables: what the then method of each does with the callbacks it
\* is given (the first call carries 3, the later ones 4, the final throw 5).
Thenables ==
  << <<[op |-> "resolve", v |-> Num(3)], [op |-> "reject", v |-> Err(4)],
       [op |-> "resolve", v |-> Num(4)], [op |-> "throw", v |-> Err(5)]>>,
     <<[op |-> "reject", v |-> Err(3)], [op |-> "resolve", v |-> Num(4)],
       [op |-> "reject", v |-> Err(4)], [op |-> "throw", v |-> Err(5)]>> >>

Return(w, v) == [w |-> w, ok |-> TRUE, val |-> v]
Throw(w, e) == [w |-> w, ok |-> FALSE, val |-> e]

World == [promise |-> promise, queue |-> queue, fns |-> fns, calls |-> calls,
          req |-> req, idb |-> idb, tx |-> tx, stores |-> stores, trace |-> trace,
          cursor |-> cursor, arrays |-> arrays, guards |-> guards,
          readopted |-> readopted, hung |-> hung, turn |-> turn]

Commit(w) ==
  /\ promise' = w.promise
  /\ queue' = w.queue
  /\ fns' = w.fns
  /\ calls' = w.calls
  /\ req' = w.req
  /\ idb' = w.idb
  /\ tx' = w.tx
  /\ stores' = w.stores
  /\ trace' = w.trace
  /\ cursor' = w.cursor
  /\ arrays' = w.arrays
  /\ guards' = w.guards
  /\ readopted' = w.readopted
  /\ hung' = w.hung
  /\ turn' = turn + 1

----------------------------------------------------------------------------
(* sync-promise.js *)

RECURSIVE adopt(_, _, _, _)
RECURSIVE adoptLoop(_, _, _, _, _)
RECURSIVE doResolve(_, _, _, _)
RECURSIVE tryCatchDeferred(_, _, _, _)
RECURSIVE settleDeferred(_, _)
RECURSIVE PromiseState(_, _, _, _, _, _)
RECURSIVE then(_, _, _, _)
RECURSIVE Call(_, _, _)
RECURSIVE runScript(_, _, _, _)
RECURSIVE SyncPromise(_, _)
RECURSIVE callResolver(_, _, _)
RECURSIVE user(_, _, _)
RECURSIVE thenableResolve(_, _, _, _)
RECURSIVE thenableReject(_, _, _, _)
RECURSIVE runThenable(_, _, _, _, _)
RECURSIVE step(_, _)
RECURSIVE raceLoop(_, _, _, _)

isFunction(fn) == fn.f # "undefined"

\* A mutant of returner: function returner(x) {}
returnerDrop == Fn("constant", 0, Undefined)

returner == Fn("returner", 0, Undefined)
thrower == Fn("thrower", 0, Undefined)

\* this._state = PendingPromise; this._value = [];
NewPromise(w) ==
  [w EXCEPT !.promise = Append(@, [state |-> "PendingPromise",
                                   value |-> QueueRef(Len(w.queue) + 1),
                                   called |-> FALSE,
                                   at |-> 0,
                                   ord |-> 0]),
            !.queue = Append(@, <<>>)]

\* adopter(promise, RejectedPromise) behind doResolve's guard:
\* (reason) => { if (!called) { called = true; reject(reason); } }
rejectFn(w, p, reason) ==
  IF w.promise[p].called THEN w
  ELSE adopt([w EXCEPT !.promise[p].called = TRUE], p, "RejectedPromise", reason)

\* reject(reason) with the pair doResolve was given: the raw adopter, or a
\* deferred's guarded _reject (rejectFn)
rejectVia(w, p, via, reason) ==
  IF via # "adopter" /\ w.promise[p].called THEN w
  ELSE adopt([w EXCEPT !.promise[p].called = @ \/ via # "adopter"], p, "RejectedPromise", reason)

\* A mutant of resolveFn: the `called` guard is dropped.
resolveFnUnguarded(w, p, value) ==
  doResolve([w EXCEPT !.promise[p].called = TRUE], p, "adopter", value)

\* (value) => { if (!called) { called = true; doResolve(promise, resolve, reject, value, value); } }
resolveFn(w, p, value) ==
  IF w.promise[p].called THEN w
  ELSE doResolve([w EXCEPT !.promise[p].called = TRUE], p, "adopter", value)

\* A mutant of doResolve: no check for the promise itself.
doResolveNoSelfCheck(w, p, via, value) ==
  IF value.k = "SyncPromise"
    THEN adopt(w, p, w.promise[value.n].state, w.promise[value.n].value)
  ELSE IF via = "adopter" THEN adopt(w, p, "FulfilledPromise", value)
  ELSE resolveFn(w, p, value)

\* doResolve(promise, resolve, reject, value, context).  `via` says which
\* resolve/reject pair the caller passed:
\* "adopter" (the raw adopters) or "Deferred" (a deferred's guarded _resolve/_reject).
doResolve(w, p, via, value) ==
  IF value = PromiseRef(p)
    THEN \* throw new TypeError(...), caught below with called = false
         rejectVia(w, p, via, TypeError)
  ELSE IF value.k = "Request"
    THEN \* a thenable: then.call(value, resolve', reject') with a fresh `called`,
         \* Request.then passing both on to promise_.then
         then([w EXCEPT !.guards = Append(@, FALSE)], value.n,
              Fn("thenable.resolve", p, [k |-> via, n |-> Len(w.guards) + 1]),
              Fn("thenable.reject", p, [k |-> via, n |-> Len(w.guards) + 1])).w
  ELSE IF value.k = "thenable"
    THEN \* then.call(value, resolve', reject') with a fresh `called`
         runThenable([w EXCEPT !.guards = Append(@, FALSE)], p,
                     [k |-> via, n |-> Len(w.guards) + 1], Thenables[value.n], 1)
  ELSE IF value.k # "SyncPromise" /\ via # "adopter" THEN resolveFn(w, p, value)
  ELSE \* adopt(promise, value.state, value.value) for a SyncPromise, resolve(value)
       \* with the raw adopter otherwise
       adopt(w, p,
             IF value.k = "SyncPromise" THEN w.promise[value.n].state ELSE "FulfilledPromise",
             IF value.k = "SyncPromise" THEN w.promise[value.n].value ELSE value)

\* A mutant of thenableResolve: the `called` guard is dropped.
thenableResolveUnguarded(w, p, g, value) ==
  doResolve([w EXCEPT !.guards[g.n] = TRUE], p, g.k, value)

\* (value) => { if (!called) { called = true; doResolve(promise, resolve, reject, value, value); } }
\* of a doResolve invocation that met a thenable
thenableResolve(w, p, g, value) ==
  IF w.guards[g.n] THEN w ELSE doResolve([w EXCEPT !.guards[g.n] = TRUE], p, g.k, value)

\* (reason) => { if (!called) { called = true; reject(reason); } }
thenableReject(w, p, g, reason) ==
  IF w.guards[g.n] THEN w ELSE rejectVia([w EXCEPT !.guards[g.n] = TRUE], p, g.k, reason)

\* The then method of a foreign thenable: a sequence of calls to the callbacks it was
\* given, possibly ended by a throw, which doResolve catches:
\* catch (reason) { if (!called) { called = true; reject(reason); } }
thenableCall(w, p, g, call) ==
  IF call.op = "resolve" THEN thenableResolve(w, p, g, call.v)
  ELSE thenableReject(w, p, g, call.v)

runThenable(w, p, g, script, i) ==
  IF i > Len(script) THEN w
  ELSE runThenable(thenableCall(w, p, g, script[i]), p, g, script,
                   IF script[i].op = "throw" THEN Len(script) + 1 ELSE i + 1)

\* A mutant of tryCatchDeferred: the handler is not run, the deferred stays pending.
tryCatchDeferredSkip(w, d, fn, arg) == w

\* try { deferred._resolve(fn(arg)); } catch (e) { deferred._reject(e); }
\* r is the completion of fn(arg).
settleDeferred(d, r) ==
  IF r.ok THEN doResolve(r.w, d, "Deferred", r.val) ELSE rejectFn(r.w, d, r.val)

tryCatchDeferred(w, d, fn, arg) == settleDeferred(d, Call(w, fn, arg))

FulfilledPromise(w, value, onFulfilled, onRejected, deferred) ==
  tryCatchDeferred(w, deferred, onFulfilled, value)

RejectedPromise(w, reason, onFulfilled, onRejected, deferred) ==
  tryCatchDeferred(w, deferred, onRejected, reason)

PendingPromise(w, q, onFulfilled, onRejected, deferred) ==
  [w EXCEPT !.queue[q.n] = Append(@, [deferred |-> deferred,
                                      onFulfilled |-> onFulfilled,
                                      onRejected |-> onRejected])]

\* state(value, onFulfilled, onRejected, deferred) with the deferred given
PromiseState(w, state, value, onFulfilled, onRejected, deferred) ==
  CASE state = "FulfilledPromise" -> FulfilledPromise(w, value, onFulfilled, onRejected, deferred)
    [] state = "RejectedPromise" -> RejectedPromise(w, value, onFulfilled, onRejected, deferred)
    [] state = "PendingPromise" -> PendingPromise(w, value, onFulfilled, onRejected, deferred)

\* for (let i = 0; i < queue.length; i++) state(value, ...queue[i]): the length is
\* read again at every step, so reactions pushed on this array meanwhile are run too.
adoptLoop(w, q, i, state, value) ==
  IF i > Len(w.queue[q]) THEN w
  ELSE LET r == w.queue[q][i]
       IN adoptLoop(PromiseState(w, state, value, r.onFulfilled, r.onRejected, r.deferred),
                    q, i + 1, state, value)

\* A mutant of adopt: the state changes but the queued reactions are not flushed.
adoptNoFlush(w, p, state, value) ==
  [w EXCEPT !.promise[p].state = state, !.promise[p].value = value, !.promise[p].at = w.turn]

\* how many promises have been fulfilled or rejected so far
Settlements(w) == Cardinality({q \in DOMAIN w.promise : w.promise[q].ord > 0})

\* `at` and `ord` record the turn of the call and the rank of the settlement
adopt(w, p, state, value) ==
  LET pending == w.promise[p].state = "PendingPromise"
      w1 == [w EXCEPT !.promise[p].state = state,
                      !.promise[p].value = value,
                      !.promise[p].at = w.turn,
                      !.promise[p].ord = IF state = "PendingPromise" THEN @
                                         ELSE Settlements(w) + 1,
                      !.readopted = @ \/ ~pending]
      q == w.promise[p].value
  IN IF ~pending THEN w1
     ELSE IF state = "PendingPromise" /\ value = q /\ Len(w.queue[q.n]) > 0
       THEN \* every step pushes one more reaction on the array the loop reads
            [w1 EXCEPT !.hung = TRUE]
     ELSE adoptLoop(w1, q.n, 1, state, value)

\* Deferred(): a new SyncPromise whose resolver only keeps resolve and reject
Deferred(w) == NewPromise(w)

\* SyncPromise.prototype.then
then(w, p, onFulfilled, onRejected) ==
  LET onF == IF isFunction(onFulfilled) THEN onFulfilled ELSE returner
      onR == IF isFunction(onRejected) THEN onRejected ELSE thrower
      d == Len(w.promise) + 1
  IN Return(PromiseState(Deferred(w), w.promise[p].state, w.promise[p].value, onF, onR, d),
            PromiseRef(d))

\* The body of an application resolver: a sequence of calls to resolve and reject,
\* possibly ended by a throw.
runScript(w, p, script, i) ==
  IF i > Len(script) THEN Return(w, Undefined)
  ELSE LET s == script[i]
       IN CASE s.op = "resolve" -> runScript(resolveFn(w, p, s.v), p, script, i + 1)
            [] s.op = "reject" -> runScript(rejectFn(w, p, s.v), p, script, i + 1)
            [] s.op = "throw" -> Throw(w, s.v)

\* new SyncPromise(resolver):
\* doResolve(this, adopter(this, Fulfilled), adopter(this, Rejected), { then: resolver }),
\* which calls resolver(resolveFn, rejectFn) and rejects with what it throws.
\* r is the completion of resolver(resolveFn, rejectFn).
\* A mutant of constructed: what the resolver throws is swallowed.
constructedSwallow(p, r) == Return(r.w, PromiseRef(p))

constructed(p, r) == Return(IF r.ok THEN r.w ELSE rejectFn(r.w, p, r.val), PromiseRef(p))

SyncPromise(w, resolver) ==
  constructed(Len(w.promise) + 1, callResolver(NewPromise(w), Len(w.promise) + 1, resolver))

----------------------------------------------------------------------------
(* The host: one IDBTransaction and its requests (W3C Indexed Database API) *)

\* an event, with the turn and the number of application calls made before it
Ev(e, a, v, w) == [e |-> e, a |-> a, v |-> v, turn |-> w.turn, c |-> Len(w.calls)]
Log(w, e, a, v) == [w EXCEPT !.trace = Append(@, Ev(e, a, v, w))]

\* IDBObjectStore.add and the like: a request is placed only while the transaction is active
hostRequest(w, by) ==
  IF w.idb.state # "active"
    THEN Throw(Log(w, "inactive", by, Undefined), TransactionInactiveError)
  ELSE LET r == Len(w.req) + 1
       IN Return([w EXCEPT !.req = Append(@, [readyState |-> "pending", result |-> Undefined,
                                              error |-> Null, onsuccess |-> NoFn,
                                              onerror |-> NoFn, by |-> by, at |-> w.turn]),
                           !.idb.requests = Append(@, r)],
                 EventRef(r))

\* IDBObjectStore.openCursor(): a request whose result is the cursor at the first
\* record, or null
hostOpenCursor(w, by) ==
  IF w.idb.state # "active"
    THEN Throw(Log(w, "inactive", by, Undefined), TransactionInactiveError)
  ELSE Return([hostRequest(w, by).w EXCEPT !.cursor.request = Len(w.req) + 1, !.cursor.step = 1],
              EventRef(Len(w.req) + 1))

\* IDBCursor.advance(count), IDBCursor.continue(): the cursor's request is pending again
hostAdvance(w, count, by) ==
  IF w.idb.state # "active"
    THEN Throw(Log(w, "inactive", by, Undefined), TransactionInactiveError)
  ELSE IF ~w.cursor.got THEN Throw(w, InvalidStateError)
  ELSE Return(Log([w EXCEPT !.cursor.got = FALSE, !.cursor.step = count,
                            !.req[w.cursor.request].readyState = "pending",
                            !.idb.requests = Append(@, w.cursor.request)],
                  "advance", by, Num(count)),
              Undefined)

\* the result of request r when it succeeds: for the cursor's request the cursor at
\* its new position or null past the last record, otherwise some value
hostResult(w, r) ==
  IF r # w.cursor.request THEN Num(r)
  ELSE IF w.cursor.pos + w.cursor.step <= w.cursor.n THEN IDBCursor(w.cursor.pos + w.cursor.step)
  ELSE Null

\* request r is done with success
hostSucceed(w, r) ==
  [w EXCEPT !.req[r].readyState = "done",
            !.req[r].result = hostResult(w, r),
            !.cursor.got = IF r = w.cursor.request THEN ~Falsy(hostResult(w, r)) ELSE @,
            !.cursor.pos = IF r = w.cursor.request THEN @ + w.cursor.step ELSE @,
            !.idb.requests = Tail(@),
            !.idb.state = "active"]

\* IDBTransaction.objectStore(name)
hostObjectStore(w) ==
  IF w.idb.state = "finished" THEN Throw(w, InvalidStateError) ELSE Return(w, Undefined)

\* IDBTransaction.abort()
hostAbort(w) ==
  IF w.idb.state \in {"committing", "finished"}
    THEN Throw(Log(w, "abortThrew", 0, Undefined), InvalidStateError)
  ELSE Return(Log([w EXCEPT !.idb.state = "finished", !.idb.outcome = "aborted"],
                  "abort", 0, Undefined), Undefined)

\* IDBTransaction.error: null after abort() was called, the error of the request
\* whose failure aborted the transaction otherwise
hostTransactionError(w) ==
  IF \E k \in DOMAIN w.trace : w.trace[k].e = "abort" THEN Null
  ELSE IF \E r \in DOMAIN w.req : w.req[r].error = Err(r)
    THEN Err(CHOOSE r \in DOMAIN w.req : w.req[r].error = Err(r))
  ELSE Null

\* the task that dispatched an event (or created the transaction) returns:
\* the transaction is no longer active, and commits when no request is pending
endDispatch(w) ==
  IF w.idb.state # "active" THEN w
  ELSE [w EXCEPT !.idb.state = IF w.idb.requests = <<>> THEN "committing" ELSE "inactive"]

\* an event handler property of a host object is called if it is set
fire(w, handler, event) == IF isFunction(handler) THEN Call(w, handler, event).w ELSE w

----------------------------------------------------------------------------
(* request.js, util.js *)

\* new Request(request, transaction, source): the Request is known by its promise_
Request(w, r) == SyncPromise(w, [kind |-> "Request", request |-> r])

\* A mutant of RequestResolver: the handlers are installed whatever the readyState.
RequestResolverInstall(w, p, r) ==
  [w EXCEPT !.req[r].onsuccess = Fn("resolveWithResult", p, Undefined),
            !.req[r].onerror = Fn("rejectWithError", p, Undefined)]

\* the resolver of Request.promise_
RequestResolver(w, p, r) ==
  IF w.req[r].readyState = "done"
    THEN IF w.req[r].error # Null THEN rejectFn(w, p, w.req[r].error)
         ELSE resolveFn(w, p, w.req[r].result)
  ELSE [w EXCEPT !.req[r].onsuccess = Fn("resolveWithResult", p, Undefined),
                 !.req[r].onerror = Fn("rejectWithError", p, Undefined)]

\* A mutant of resolveWithResult: the event is passed on instead of its target's result.
resolveWithEvent(w, p, event) == resolveFn(w, p, event)

\* (event) => { resolve(event.target.result); }
resolveWithResult(w, p, event) == resolveFn(w, p, w.req[event.n].result)

\* (event) => { reject(event.target.error); }: the target is request event.n, or
\* the transaction (0)
rejectWithError(w, p, event) ==
  rejectFn(w, p, IF event.n = 0 THEN hostTransactionError(w) ELSE w.req[event.n].error)

----------------------------------------------------------------------------
(* classes/transaction.js *)

\* A mutant of TransactionResolver: the abort event rejects the promise as well.
TransactionResolverOnAbort(w, p) ==
  [w EXCEPT !.idb.oncomplete = Fn("oncomplete", p, Undefined),
            !.idb.onerror = Fn("rejectWithError", p, Undefined),
            !.idb.onabort = Fn("rejectWithError", p, Undefined)]

\* A mutant of TransactionResolver: the error event is not listened to.
TransactionResolverNoError(w, p) ==
  [w EXCEPT !.idb.oncomplete = Fn("oncomplete", p, Undefined)]

\* the resolver of Transaction.promise_
TransactionResolver(w, p) ==
  [w EXCEPT !.idb.oncomplete = Fn("oncomplete", p, Undefined),
            !.idb.onerror = Fn("rejectWithError", p, Undefined)]

\* A mutant of Transaction: ran_ starts false whatever the mode.
TransactionNotRan(w, class) ==
  IF class = "VersionChangeTransaction" THEN [w EXCEPT !.tx.class = class]
  ELSE [SyncPromise([w EXCEPT !.tx.class = class, !.tx.ran_ = FALSE],
                    [kind |-> "Transaction"]).w
          EXCEPT !.tx.promise_ = Len(w.promise) + 1]

\* new Transaction(transaction, db), new VersionChangeTransaction(transaction)
Transaction(w, class) ==
  IF class = "VersionChangeTransaction" THEN [w EXCEPT !.tx.class = class]
  ELSE [SyncPromise([w EXCEPT !.tx.class = class, !.tx.ran_ = (w.idb.mode = "versionchange")],
                    [kind |-> "Transaction"]).w
          EXCEPT !.tx.promise_ = Len(w.promise) + 1]

\* A mutant of oncomplete: ran_ is left as it is.
oncompleteKeepsRan(w, p) == resolveFn(w, p, Undefined)

\* transaction.oncomplete = () => { this.ran_ = true; resolve(); }
oncomplete(w, p) == resolveFn([w EXCEPT !.tx.ran_ = TRUE], p, Undefined)

\* BaseTransaction.abort
abort(w) == hostAbort(w)

\* A mutant of objectStore: the ran_ check is missing.
objectStoreUnchecked(w) ==
  LET r == hostObjectStore(w)
  IN IF r.ok THEN Return([r.w EXCEPT !.stores = @ + 1], Undefined) ELSE r

\* A mutant of objectStore: the wrapper is made without asking the host.
objectStoreDetached(w) ==
  IF w.tx.class = "Transaction" /\ ~w.tx.ran_ THEN Throw(w, OutsideRun)
  ELSE Return([w EXCEPT !.stores = @ + 1], Undefined)

\* Transaction.objectStore, VersionChangeTransaction.objectStore
objectStore(w) ==
  IF w.tx.class = "Transaction" /\ ~w.tx.ran_ THEN Throw(w, OutsideRun)
  ELSE LET r == hostObjectStore(w)
       IN IF r.ok THEN Return([r.w EXCEPT !.stores = @ + 1], Undefined) ELSE r

\* A mutant of runOnFulfilled: the result is passed on without waiting for promise_.
runOnFulfilledNoWait(w, result) == Return(w, result)

\* (result) => { return this.promise_.then(() => result); }
runOnFulfilled(w, result) ==
  then(Log(w, "run.onFulfilled", 0, result), w.tx.promise_, Fn("constant", 0, result), NoFn)

\* (error) => { this.abort(); throw error; }
runOnRejected(w, error) ==
  IF abort(Log(w, "run.onRejected", 0, error)).ok
    THEN Throw(abort(Log(w, "run.onRejected", 0, error)).w, error)
  ELSE abort(Log(w, "run.onRejected", 0, error))

\* the resolver of run's first promise: (resolve) => { resolve(callback(this)); }
\* The completion of callback(this), which callResolver hands to resolve.
runResolver(w, p, callback) == Call(w, callback, TransactionRef)

\* A mutant of run: the ran_ check is missing.
runUnchecked(w, callback) ==
  IF w.tx.class # "Transaction" THEN Throw(w, TypeError)
  ELSE then(SyncPromise([w EXCEPT !.tx.ran_ = TRUE], [kind |-> "run", callback |-> callback]).w,
            Len(w.promise) + 1, Fn("run.onFulfilled", 0, Undefined),
            Fn("run.onRejected", 0, Undefined))

\* Transaction.run(callback); VersionChangeTransaction has no run method
run(w, callback) ==
  IF w.tx.class # "Transaction" THEN Throw(w, TypeError)
  ELSE IF w.tx.ran_ THEN Throw(w, AlreadyRun)
  ELSE then(SyncPromise([w EXCEPT !.tx.ran_ = TRUE], [kind |-> "run", callback |-> callback]).w,
            Len(w.promise) + 1, Fn("run.onFulfilled", 0, Undefined),
            Fn("run.onRejected", 0, Undefined))

----------------------------------------------------------------------------
(* src/transaction.js: the Transaction that takes { aborted } *)

\* A mutant of OptionsResolver: the abort event is not listened to.
OptionsResolverNoAbort(w, p, aborted) ==
  [w EXCEPT !.idb.oncomplete = Fn("resolve.sentinel", p, Undefined),
            !.idb.onerror = Fn("rejectWithError", p, Undefined)]

\* the resolver of Transaction.promise: oncomplete = () => resolve(this.sentinel),
\* onerror = rejectWithError(reject),
\* onabort = aborted ? recoverWith(resolve, aborted) : rejectWithError(reject)
OptionsResolver(w, p, aborted) ==
  [w EXCEPT !.idb.oncomplete = Fn("resolve.sentinel", p, Undefined),
            !.idb.onerror = Fn("rejectWithError", p, Undefined),
            !.idb.onabort = IF isFunction(aborted) THEN Fn("recoverWith", p, Num(aborted.a))
                            ELSE Fn("rejectWithError", p, Undefined)]

\* new Transaction(transaction, db, { aborted })
TransactionOptions(w, aborted) ==
  [SyncPromise([w EXCEPT !.tx.class = "Transaction.options"],
               [kind |-> "Transaction.options", aborted |-> aborted]).w
     EXCEPT !.tx.promise_ = Len(w.promise) + 1]

\* recoverWith(resolve, aborted) of util.js: the abort event resolves the promise
\* with what the handler returns.  r is the completion of aborted(event).
recovered(p, r) == IF r.ok THEN resolveFn(r.w, p, r.val) ELSE r.w

recoverWith(w, p, aborted, event) == recovered(p, Call(w, aborted, event))

\* A mutant of runCompletion: the callback's result whatever the completion.
runCompletionIgnored(result, completion) == result

\* (completion) => completion === this.sentinel ? result : completion
runCompletion(result, completion) == IF completion = Sentinel THEN result ELSE completion

\* (result) => this.promise.then((completion) => ..)
runOptionsOnFulfilled(w, result) ==
  then(Log(w, "run.onFulfilled", 0, result), w.tx.promise_, Fn("completion", 0, result), NoFn)

\* Transaction.run(callback) of src/transaction.js
runOptions(w, callback) ==
  then(SyncPromise(w, [kind |-> "run", callback |-> callback]).w,
       Len(w.promise) + 1, Fn("run.options.onFulfilled", 0, Undefined),
       Fn("run.onRejected", 0, Undefined))

----------------------------------------------------------------------------
(* classes/cursor.js *)

\* promise.then(onFulfilled, onRejected) on the promise a completion holds
thenR(r, onFulfilled, onRejected) == then(r.w, r.val.n, onFulfilled, onRejected)

\* SyncPromise.resolve(value)
resolve(w, value) ==
  IF value.k = "SyncPromise" THEN Return(w, value)
  ELSE SyncPromise(w, [kind |-> "resolve", value |-> value])

\* The resolver of SyncPromise.all(promises): let count = promises.length;
\* const values = new Array(count); an empty input resolves at once (the completion
\* is what callResolver hands to resolve).  The loop body
\* starts with SyncPromise.resolve(promise), and no `promise` is declared in the
\* function, the class or the module: evaluating it throws a ReferenceError at i = 0.
allResolver(w, p, promises) ==
  LET values == Len(w.arrays) + 1
      w1 == [w EXCEPT !.arrays = Append(@, [i \in 1..Len(promises) |-> Undefined])]
  IN IF Len(promises) = 0 THEN Return(w1, ArrayRef(values))
     ELSE Throw(w1, ReferenceError)

\* SyncPromise.all(promises), the input array being arrays[promises]
all(w, promises) == SyncPromise(w, [kind |-> "all", promises |-> w.arrays[promises]])

\* for (let i = 0; i < promises.length; i++)
\*   SyncPromise.resolve(promises[i]).then(resolve, reject);
raceLoop(w, p, promises, i) ==
  IF i > Len(promises) THEN Return(w, Undefined)
  ELSE raceLoop(thenR(resolve(w, promises[i]),
                      Fn("resolve", p, Undefined), Fn("reject", p, Undefined)).w,
                p, promises, i + 1)

\* SyncPromise.race(promises), the input array being arrays[promises]
race(w, promises) == SyncPromise(w, [kind |-> "race", promises |-> w.arrays[promises]])

\* Cursor.advance(count), Cursor.continue(): by the application function `by`, or by
\* the wrapper (0)
advance(w, count, by) == hostAdvance(w, count, by)

\* new CursorRequest(cursorRequest, transaction, source)
CursorRequest(w, r) == [Request(w, r).w EXCEPT !.cursor.promise_ = Len(w.promise) + 1]

\* ObjectStore.openCursor(): r is the completion of the host's openCursor
openCursor(r) == IF r.ok THEN Return(CursorRequest(r.w, r.val.n), Undefined) ELSE r

\* A mutant of iterateResolver: the iterator is called but its value is not awaited.
iterateResolverNoWait(w, p) ==
  [Call(w, w.cursor.iterator, CursorRef(w.cursor.value)) EXCEPT !.val = Undefined]

\* const iterate = (resolve) => { resolve(iterator(cursor)); }
\* The completion of iterator(cursor), which callResolver hands to resolve.
iterateResolver(w, p) == Call(w, w.cursor.iterator, CursorRef(w.cursor.value))

\* return (this._promise = next): r is the completion of new Request(request, ..)
nextRequest(r) ==
  Return(Log([r.w EXCEPT !.cursor.promise_ = r.val.n], "next", 0, r.val), RequestRef(r.val.n))

\* pushAndMaybeAdvance, after results.push(result)
maybeAdvance(w) ==
  IF w.req[w.cursor.request].readyState = "done" THEN Return(w, Null)
  ELSE nextRequest(Request(w, w.cursor.request))

\* A mutant of pushAndMaybeAdvance: the result is not pushed.
maybeAdvanceOnly(w, result) == maybeAdvance(w)

pushAndMaybeAdvance(w, result) ==
  maybeAdvance(Log([w EXCEPT !.arrays[w.cursor.results] = Append(@, result)], "push", 0, result))

step(w, result) ==
  IF Falsy(result) THEN Return(w, ArrayRef(w.cursor.results))
  ELSE thenR(thenR(SyncPromise([w EXCEPT !.cursor.value = result.n], [kind |-> "iterate"]),
                   Fn("pushAndMaybeAdvance", 0, Undefined), NoFn),
             Fn("step", 0, Undefined), NoFn)

\* the function iterate passes to this._promise.then
iterateOnFulfilled(w, result) ==
  IF Falsy(result)
    THEN Return([w EXCEPT !.arrays = Append(@, <<>>)], ArrayRef(Len(w.arrays) + 1))
  ELSE step([w EXCEPT !.arrays = Append(@, <<>>), !.cursor.results = Len(w.arrays) + 1], result)

\* CursorRequest.iterate(iterator)
iterate(w, iterator) ==
  then([w EXCEPT !.cursor.iterator = iterator], w.cursor.promise_,
       Fn("iterate.onFulfilled", 0, Undefined), NoFn)

\* return result, after what autoAdvancer did: r is its completion
returnResult(r, result) == IF r.ok THEN Return(r.w, result) ELSE r

\* A mutant of autoAdvancer: the wrapper never advances the cursor.
autoAdvancerIdle(w, result) == Return(w, result)

autoAdvancer(w, result) ==
  IF w.req[w.cursor.request].readyState # "done" THEN Return(w, result)
  ELSE IF result = False THEN Return([w EXCEPT !.cursor.preempt = TRUE], result)
  ELSE returnResult(advance(w, 1, 0), result)

\* .then(autoAdvancer) on SyncPromise.resolve(..) of what the iterator returned,
\* r being the iterator's completion
autoAdvanced(r) ==
  IF r.ok THEN thenR(resolve(r.w, r.val), Fn("autoAdvancer", 0, Undefined), NoFn) ELSE r

\* (c) => { cursor = c; return SyncPromise.resolve(iterator(cursor)).then(autoAdvancer); }
whileIterator(w, c) == autoAdvanced(Call(w, w.cursor.user, c))

\* A mutant of whileOnFulfilled: nothing is popped.
whileKeepAll(w, results) == Return(w, results)

\* (results) => { if (preempt) { results.pop(); } return results; }
whileOnFulfilled(w, results) ==
  IF w.cursor.preempt
    THEN Return([w EXCEPT !.arrays[results.n] = SubSeq(@, 1, Len(@) - 1)], results)
  ELSE Return(w, results)

\* CursorRequest.while(iterator)
while(w, iterator) ==
  thenR(iterate([w EXCEPT !.cursor.user = iterator, !.cursor.preempt = FALSE],
                Fn("while.iterator", 0, Undefined)),
        Fn("while.onFulfilled", 0, Undefined), NoFn)

----------------------------------------------------------------------------
(* Functions as values *)

\* resolvers of the form (resolve) => { resolve(expression); }: the completion of
\* the expression
resolverValue(w, p, resolver) ==
  CASE resolver.kind = "run" -> runResolver(w, p, resolver.callback)
    [] resolver.kind = "iterate" -> iterateResolver(w, p)
    [] resolver.kind = "all" -> allResolver(w, p, resolver.promises)
    [] resolver.kind = "resolve" -> Return(w, resolver.value)

\* resolve(expression): r is the completion of the expression
resolveWith(p, r) == IF r.ok THEN Return(resolveFn(r.w, p, r.val), Undefined) ELSE r

callResolver(w, p, resolver) ==
  CASE resolver.kind = "script" -> runScript(w, p, resolver.script, 1)
    [] resolver.kind = "Request" -> Return(RequestResolver(w, p, resolver.request), Undefined)
    [] resolver.kind = "Transaction" -> Return(TransactionResolver(w, p), Undefined)
    [] resolver.kind = "Transaction.options" ->
         Return(OptionsResolver(w, p, resolver.aborted), Undefined)
    [] resolver.kind = "race" -> raceLoop(w, p, resolver.promises, 1)
    [] OTHER -> resolveWith(p, resolverValue(w, p, resolver))

\* store.add(record) made by application function h, followed by .then(next):
\* the promise then returns, or what add throws
addThen(w, h, next) ==
  LET rq == hostRequest(w, h)
  IN IF rq.ok
       THEN then([Request(rq.w, rq.val.n).w
                    EXCEPT !.fns = Append(@, [next EXCEPT !.on = rq.val.n])],
                 Len(w.promise) + 1, UserFn(Len(w.fns) + 1), NoFn)
     ELSE rq

\* a handler that does nothing
quiet == [beh |-> "return", v |-> Undefined, d |-> 0, end |-> "return", on |-> 0]

\* the handler application function b chains on the request it issues
next(b) ==
  IF b.d <= 1 THEN [beh |-> b.end, v |-> b.v, d |-> 0, end |-> b.end, on |-> 0]
  ELSE [b EXCEPT !.beh = "chain", !.d = b.d - 1]

\* a handler that aborts the transaction
aborter == [beh |-> "abort", v |-> Undefined, d |-> 0, end |-> "return", on |-> 0]

\* store.add(..).then(quiet), or store.add(..).then(() => { tx.abort(); }), if the
\* function does that
userFire(b, h, r) ==
  IF r.ok /\ b.beh \in {"fire", "both", "abort.later", "fire.abort"}
    THEN addThen(r.w, h, IF b.beh = "abort.later" THEN aborter ELSE quiet)
  ELSE r

\* p.then(g, g) called by handler h on the promise p it was registered on (b.on),
\* g doing nothing; the registration is recorded
thenInside(w, h) ==
  then(Log([w EXCEPT !.fns = @ \o <<quiet, quiet>>], "then", w.fns[h].on, Num(Len(w.fns) + 1)),
       w.fns[h].on, UserFn(Len(w.fns) + 1), UserFn(Len(w.fns) + 2))

\* tx.abort(); return v: r is the completion of tx.abort()
aborting(b, r) == IF r.ok THEN Return(r.w, b.v) ELSE r

\* tx.abort() after the statement that completed with r
abortNext(r) == IF r.ok THEN abort(r.w) ELSE r

\* return store.add(..).then(next), if the function does that, or the plain end
userEnd(b, h, r) ==
  CASE ~r.ok -> r
    [] b.beh \in {"chain", "both"} -> addThen(r.w, h, next(b))
    [] b.end = "throw" -> Throw(r.w, b.v)
    [] OTHER -> Return(r.w, b.v)

\* the error an iterator throws
IteratorError == Err(3)

\* cursor.advance(count), if the function does that: r is the completion so far.
\* An "iter.once" iterator advances at the first record only.
iterAdvance(b, h, r) ==
  IF r.ok /\ b.v.n > 0 /\ (b.beh = "iter.once" => r.w.cursor.value = 1)
    THEN advance(r.w, b.v.n, h)
  ELSE r

\* whether a function ending as b.end says throws at record pos, and what it returns
\* otherwise: ".after" ends return the ordinal at the first record and differ later
Throws(b, pos) == b.end = "throw" \/ (b.end = "throw.after" /\ pos > 1)

EndValue(b, pos) ==
  IF b.end = "false" \/ (b.end = "false.after" /\ pos > 1) THEN False ELSE Num(pos)

\* the end of an iterator or of its handler: the ordinal of the record, false, or a throw
iterEnd(b, r) ==
  CASE ~r.ok -> r
    [] Throws(b, r.w.cursor.value) -> Throw(r.w, IteratorError)
    [] OTHER -> Return(r.w, EndValue(b, r.w.cursor.value))

\* new Request(..): rq is the completion of the host call that places the request
wrapped(rq) == IF rq.ok THEN Request(rq.w, rq.val.n) ELSE rq

\* A mutant of update: the call advances the cursor instead.
updateAdvancing(w, by) == advance(w, 1, by)

\* Cursor.update(value) and Cursor.delete():
\* return new Request(this._cursor.update(value), this.transaction, this)
update(w, by) == wrapped(hostRequest(w, by))

\* return store.put(..).then(handler), return cursor.delete().then(handler)
iterChain(h, r, handler) == IF r.ok THEN addThen(r.w, h, handler) ELSE r

\* the handler an iterator chains on its request; it advances by k
iterHandler(b, k) == [beh |-> "iter.end", v |-> Num(k), d |-> 0, end |-> b.end, on |-> 0]

\* the handler an iterator that advances late chains on its request
iterLater(b) == IF b.d <= 1 THEN iterHandler(b, b.v.n) ELSE [b EXCEPT !.d = b.d - 1, !.on = 0]

\* store.openCursor(): r is the completion of tx.objectStore(name)
cursorOpened(h, r) == IF r.ok THEN openCursor(hostOpenCursor(r.w, h)) ELSE r

\* .iterate(iterator) or .while(iterator) on the CursorRequest
iterating(b, h, r) ==
  CASE ~r.ok -> r
    [] b.beh = "iterate" -> iterate(r.w, UserFn(h + 3))
    [] OTHER -> while(r.w, UserFn(h + 3))

\* What an application function does.  "return" and "throw" end with b.v.
\* "chain": return store.add(..).then(next), the chain being b.d requests long and
\* its last handler ending as b.end says.  "fire": store.add(..).then(quiet) and end
\* now as b.end says.  "both": a fire and then a chain.  The callback of run (called
\* with the transaction) opens the object store first.
user(w, h, arg) ==
  CASE w.fns[h].beh = "return" -> Return(w, w.fns[h].v)
    [] w.fns[h].beh = "throw" -> Throw(w, w.fns[h].v)
    [] w.fns[h].beh = "abort" -> aborting(w.fns[h], abort(w))
    [] w.fns[h].beh = "then" -> thenInside(w, h)
    [] w.fns[h].beh = "abort.two" ->
         \* store.add(..).then(() => { tx.abort(); }); store.add(..).then(quiet)
         userEnd(w.fns[h], h,
                 userFire([w.fns[h] EXCEPT !.beh = "fire"], h,
                          userFire([w.fns[h] EXCEPT !.beh = "abort.later"], h, objectStore(w))))
    [] w.fns[h].beh = "fire.abort" ->
         aborting(w.fns[h], abortNext(userFire(w.fns[h], h, objectStore(w))))
    [] w.fns[h].beh \in {"iterate", "while"} ->
         \* tx => tx.objectStore(name).openCursor().iterate(iterator)
         iterating(w.fns[h], h, cursorOpened(h, objectStore(w)))
    [] w.fns[h].beh \in {"iter.end", "iter.once"} ->
         \* advance by v (if at all) and end
         iterEnd(w.fns[h], iterAdvance(w.fns[h], h, Return(w, Undefined)))
    [] w.fns[h].beh = "iter.sync" ->
         \* advance by v, issue a request and end in its handler
         iterChain(h, iterAdvance(w.fns[h], h, Return(w, Undefined)), iterHandler(w.fns[h], 0))
    [] w.fns[h].beh = "iter.fire" ->
         \* cursor.update(..) or cursor.delete(), and end
         iterEnd(w.fns[h], update(w, h))
    [] w.fns[h].beh = "iter.late" ->
         \* issue a request; its handler advances by v and ends, or (d > 1) returns
         \* the promise of a further request handled the same way
         addThen(w, h, iterLater(w.fns[h]))
    [] OTHER -> userEnd(w.fns[h], h,
                        userFire(w.fns[h], h,
                                 IF arg = TransactionRef THEN objectStore(w)
                                 ELSE Return(w, Undefined)))

\* Calling a function value.
Call(w, fn, arg) ==
  CASE fn.f = "returner" -> Return(w, arg)
    [] fn.f = "thrower" -> Throw(w, arg)
    [] fn.f = "constant" -> Return(w, fn.v)
    [] fn.f = "resolve" -> Return(resolveFn(w, fn.a, arg), Undefined)
    [] fn.f = "reject" -> Return(rejectFn(w, fn.a, arg), Undefined)
    [] fn.f = "thenable.resolve" -> Return(thenableResolve(w, fn.a, fn.v, arg), Undefined)
    [] fn.f = "thenable.reject" -> Return(thenableReject(w, fn.a, fn.v, arg), Undefined)
    [] fn.f = "resolveWithResult" -> Return(resolveWithResult(w, fn.a, arg), Undefined)
    [] fn.f = "rejectWithError" -> Return(rejectWithError(w, fn.a, arg), Undefined)
    [] fn.f = "oncomplete" -> Return(oncomplete(w, fn.a), Undefined)
    [] fn.f = "resolve.sentinel" -> Return(resolveFn(w, fn.a, Sentinel), Undefined)
    [] fn.f = "recoverWith" -> Return(recoverWith(w, fn.a, UserFn(fn.v.n), arg), Undefined)
    [] fn.f = "completion" -> Return(w, runCompletion(fn.v, arg))
    [] fn.f = "run.options.onFulfilled" -> runOptionsOnFulfilled(w, arg)
    [] fn.f = "run.onFulfilled" -> runOnFulfilled(w, arg)
    [] fn.f = "run.onRejected" -> runOnRejected(w, arg)
    [] fn.f = "iterate.onFulfilled" -> iterateOnFulfilled(w, arg)
    [] fn.f = "pushAndMaybeAdvance" -> pushAndMaybeAdvance(w, arg)
    [] fn.f = "step" -> step(w, arg)
    [] fn.f = "while.iterator" -> whileIterator(w, arg)
    [] fn.f = "autoAdvancer" -> autoAdvancer(w, arg)
    [] fn.f = "while.onFulfilled" -> whileOnFulfilled(w, arg)
    [] fn.f = "user" ->
         user([w EXCEPT !.calls = Append(@, [fn |-> fn.a, arg |-> arg, turn |-> w.turn])],
              fn.a, arg)
    [] OTHER -> Throw(w, TypeError)

----------------------------------------------------------------------------
(* Application code driving SyncPromise directly *)

Resolutions == {Num(1)}     \* what resolvers resolve with
Rejections == {Err(1)}      \* what resolvers reject with
Results == {Num(2)}         \* what handlers return
Thrown == {Err(2)}          \* what handlers and resolvers throw

Promises == 1..Len(promise)

\* What an application handler may do: return a value, return a promise (the last
\* one is the promise the then call is about to return), throw.
Behaviours ==
  [beh : {"return"}, v : Results \cup {PromiseRef(p) : p \in 1..(Len(promise) + 1)},
   d : {0}, end : {"return"}, on : {0}]
    \cup [beh : {"throw"}, v : Thrown, d : {0}, end : {"throw"}, on : {0}]

ScriptOps ==
  [op : {"resolve"}, v : Resolutions \cup {PromiseRef(p) : p \in Promises}]
    \cup [op : {"reject"}, v : Rejections] \cup [op : {"throw"}, v : Thrown]

Scripts == {<<>>} \cup {<<a>> : a \in ScriptOps} \cup {<<a, b>> : a, b \in ScriptOps}

NoTransaction == [class |-> "none", ran_ |-> FALSE, promise_ |-> 0]

NoCursor ==
  [request |-> 0, pos |-> 0, step |-> 0, n |-> 0, got |-> FALSE,
   promise_ |-> 0, iterator |-> NoFn, user |-> NoFn, value |-> 0, results |-> 0,
   preempt |-> FALSE]

NoHost ==
  /\ cursor = NoCursor
  /\ arrays = <<>>
  /\ guards = <<>>
  /\ req = <<>>
  /\ idb = [mode |-> "none", state |-> "finished", outcome |-> "none", requests |-> <<>>,
            oncomplete |-> NoFn, onerror |-> NoFn, onabort |-> NoFn, abortFired |-> FALSE]
  /\ tx = NoTransaction
  /\ stores = 0
  /\ trace = <<>>
  /\ runs = <<>>
  /\ opened = {}

InitPromise ==
  /\ promise = <<>>
  /\ queue = <<>>
  /\ fns = <<>>
  /\ calls = <<>>
  /\ resolvers = <<>>
  /\ thens = <<>>
  /\ NoHost
  /\ readopted = FALSE
  /\ hung = FALSE
  /\ turn = 0

NoCall == [op |-> "none", v |-> Undefined]

\* p = new SyncPromise((resolve, reject) => { <script> }), keeping resolve and reject
ConstructWith(scripts) ==
  /\ ~hung
  /\ turn < MaxTurns
  /\ Len(promise) < MaxPromises
  /\ \E script \in scripts :
       /\ Commit(SyncPromise(World, [kind |-> "script", script |-> script]).w)
       /\ resolvers' = resolvers @@
            ((Len(promise) + 1) :> (IF script = <<>> THEN NoCall ELSE script[1]))
       /\ UNCHANGED <<thens, runs, opened>>

\* a later call of a kept resolve or reject
SettleWith(ops) ==
  /\ ~hung
  /\ turn < MaxTurns
  /\ \E p \in DOMAIN resolvers : \E s \in ops :
       /\ s.op # "throw"
       /\ Commit(IF s.op = "resolve" THEN resolveFn(World, p, s.v) ELSE rejectFn(World, p, s.v))
       /\ resolvers' = IF resolvers[p] = NoCall THEN [resolvers EXCEPT ![p] = s] ELSE resolvers
       /\ UNCHANGED <<thens, runs, opened>>

\* p.then(onFulfilled, onRejected) with two fresh application handlers
CallThenWith(behaviours) ==
  /\ ~hung
  /\ turn < MaxTurns
  /\ Len(promise) < MaxPromises
  /\ \E p \in Promises : \E b \in behaviours :
       LET h == Len(fns)
           w == [World EXCEPT !.fns = @ \o <<b, b>>]
       IN \* const d = p.then(() => d): d can be read only by a handler that runs later
          /\ b.v = PromiseRef(Len(promise) + 1) => promise[p].state = "PendingPromise"
          /\ Commit(then(w, p, UserFn(h + 1), UserFn(h + 2)).w)
          /\ thens' = Append(thens, [p |-> p, state |-> promise[p].state, value |-> promise[p].value,
                                      onFulfilled |-> h + 1, onRejected |-> h + 2,
                                      deferred |-> Len(promise) + 1, turn |-> turn])
          /\ UNCHANGED <<resolvers, runs, opened>>

Construct == ConstructWith(Scripts)
Settle == SettleWith(ScriptOps)
CallThen == CallThenWith(Behaviours)

NextPromise == Construct \/ Settle \/ CallThen

SpecPromise == InitPromise /\ [][NextPromise]_vars

----------------------------------------------------------------------------
(* Application code resolving promises with foreign thenables *)

\* resolve(thenable)
ThenableOps == [op : {"resolve"}, v : {Thenable(i) : i \in DOMAIN Thenables}]

\* new SyncPromise(resolve => resolve(thenable)), or a resolver that keeps resolve
ConstructThenable == ConstructWith({<<>>} \cup {<<a>> : a \in ThenableOps})

\* a later resolve(thenable), resolve(1) or reject(e)
SettleThenable ==
  SettleWith(ThenableOps \cup [op : {"resolve"}, v : Resolutions] \cup [op : {"reject"}, v : Rejections])

\* p.then(() => thenable, () => thenable)
CallThenThenable ==
  CallThenWith([beh : {"return"}, v : {Thenable(i) : i \in DOMAIN Thenables},
                d : {0}, end : {"return"}, on : {0}])

NextThenable == ConstructThenable \/ SettleThenable \/ CallThenThenable

SpecThenable == InitPromise /\ [][NextThenable]_vars

----------------------------------------------------------------------------
(* Application code combining promises with SyncPromise.all and SyncPromise.race *)

RECURSIVE Allocated(_, _)

\* the arrays of inputs the application passes: up to two promises or plain
\* values (the same one twice included)
Inputs ==
  LET items == {PromiseRef(p) : p \in Promises} \cup Resolutions
  IN {<<>>} \cup {<<a>> : a \in items} \cup {<<a, b>> : a, b \in items}

\* a promise the application keeps the resolver of, or one settled from the start
ConstructInput ==
  ConstructWith({<<>>} \cup {<<a>> : a \in [op : {"resolve"}, v : Resolutions]
                                         \cup [op : {"reject"}, v : Rejections]})

\* a later resolve(2) or reject(e2)
SettleInput == SettleWith([op : {"resolve"}, v : Results] \cup [op : {"reject"}, v : Thrown])

\* p.then(f, f) with f returning a value or throwing
CallThenInput ==
  CallThenWith([beh : {"return"}, v : {Num(5)}, d : {0}, end : {"return"}, on : {0}]
                 \cup [beh : {"throw"}, v : {Err(5)}, d : {0}, end : {"throw"}, on : {0}])

\* SyncPromise.all(inputs), the one call to a combinator the application makes
CallAll ==
  /\ trace = <<>>
  /\ turn < MaxTurns
  /\ Len(promise) < MaxPromises
  /\ \E inputs \in Inputs :
       Commit(Log(all([World EXCEPT !.arrays = Append(@, inputs)], Len(arrays) + 1).w,
                  "all", Len(promise) + 1, ArrayRef(Len(arrays) + 1)))
  /\ UNCHANGED <<resolvers, thens, runs, opened>>

\* the promises race allocates: its own, one per then, one per SyncPromise.resolve
\* of a plain value
Allocated(inputs, i) ==
  IF i > Len(inputs) THEN 1
  ELSE (IF inputs[i].k = "SyncPromise" THEN 1 ELSE 2) + Allocated(inputs, i + 1)

\* SyncPromise.race(inputs), the one call to a combinator the application makes
CallRace ==
  /\ trace = <<>>
  /\ turn < MaxTurns
  /\ \E inputs \in Inputs :
       /\ Len(promise) + Allocated(inputs, 1) <= MaxPromises
       /\ Commit(Log(race([World EXCEPT !.arrays = Append(@, inputs)], Len(arrays) + 1).w,
                  "race", Len(promise) + 1, ArrayRef(Len(arrays) + 1)))
  /\ UNCHANGED <<resolvers, thens, runs, opened>>

NextCombine == ConstructInput \/ SettleInput \/ CallThenInput \/ CallAll \/ CallRace

SpecCombine == InitPromise /\ [][NextCombine]_vars

----------------------------------------------------------------------------
(* Application code calling then with one handler, catch, or then() *)

\* p.then(f), p.then(undefined, f) - which is p.catch(f) - and p.then(), with f
\* returning a value or throwing
CallThenPartial ==
  /\ turn < MaxTurns
  /\ Len(promise) < MaxPromises
  /\ \E p \in Promises : \E given \in {"onFulfilled", "onRejected", "none"} :
     \E b \in [beh : {"return"}, v : {Num(5)}, d : {0}, end : {"return"}, on : {0}]
                \cup [beh : {"throw"}, v : {Err(5)}, d : {0}, end : {"throw"}, on : {0}] :
       LET h == Len(fns) + 1
           onF == IF given = "onFulfilled" THEN UserFn(h) ELSE NoFn
           onR == IF given = "onRejected" THEN UserFn(h) ELSE NoFn
       IN /\ given = "none" => b.beh = "return"
          /\ Commit(then([World EXCEPT !.fns = Append(@, b)], p, onF, onR).w)
          /\ thens' = Append(thens, [p |-> p, state |-> promise[p].state, value |-> promise[p].value,
                                      onFulfilled |-> onF.a, onRejected |-> onR.a,
                                      deferred |-> Len(promise) + 1, turn |-> turn])
          /\ UNCHANGED <<resolvers, runs, opened>>

NextChain == ConstructInput \/ SettleInput \/ CallThenPartial

SpecChain == InitPromise /\ [][NextChain]_vars

----------------------------------------------------------------------------
(* Application code registering several reactions on one promise *)

\* p.then(f, f), recorded as a registration on p, with f returning a value or
\* calling p.then(g, g) itself (and returning the promise that gives)
CallThenOrder ==
  /\ turn < MaxTurns
  /\ Len(promise) < MaxPromises
  /\ \E p \in Promises : \E beh \in {"return", "then"} :
       LET h == Len(fns) + 1
           f == [beh |-> beh, v |-> Num(2), d |-> 0, end |-> "return", on |-> p]
       IN /\ Commit(then(Log([World EXCEPT !.fns = @ \o <<f, f>>], "then", p, Num(h)),
                         p, UserFn(h), UserFn(h + 1)).w)
          /\ thens' = Append(thens, [p |-> p, state |-> promise[p].state, value |-> promise[p].value,
                                      onFulfilled |-> h, onRejected |-> h + 1,
                                      deferred |-> Len(promise) + 1, turn |-> turn])
          /\ UNCHANGED <<resolvers, runs, opened>>

NextOrder == ConstructInput \/ SettleInput \/ CallThenOrder

SpecOrder == InitPromise /\ [][NextOrder]_vars

----------------------------------------------------------------------------
(* Properties of SyncPromise *)

Settled(p) == promise[p].state # "PendingPromise"

\* the invocations of application function h
CallsOf(h) == SelectSeq(calls, LAMBDA c : c.fn = h)

\* h was invoked exactly once, with `value`, in turn t
CalledOnce(h, value, t) ==
  /\ Len(CallsOf(h)) = 1
  /\ CallsOf(h)[1].arg = value
  /\ CallsOf(h)[1].turn = t

\* C2: when then is called on a promise that is already fulfilled (rejected),
\* onFulfilled (onRejected) is invoked exactly once with the settled value inside
\* that then call, the other handler is never invoked, and no invocation happens
\* in a later turn.
C2_SettledThenRunsHandlerAtOnce ==
  \A i \in 1..Len(thens) :
    LET t == thens[i]
    IN /\ t.state = "FulfilledPromise" =>
            CalledOnce(t.onFulfilled, t.value, t.turn) /\ CallsOf(t.onRejected) = <<>>
       /\ t.state = "RejectedPromise" =>
            CalledOnce(t.onRejected, t.value, t.turn) /\ CallsOf(t.onFulfilled) = <<>>

C2_Witness ==
  \E i, j \in 1..Len(thens) :
    /\ thens[i].state = "FulfilledPromise" /\ CallsOf(thens[i].onFulfilled) # <<>>
    /\ thens[j].state = "RejectedPromise" /\ CallsOf(thens[j].onRejected) # <<>>
    /\ turn > thens[i].turn + 1

\* C3: when a promise that was pending at a then call has become fulfilled
\* (rejected), the reaction queued by that call had onFulfilled (onRejected)
\* invoked exactly once, with the promise's value, in the very turn that settled
\* the promise, and its other handler never.
C3_QueuedReactionsFlushedOnce ==
  \A i \in 1..Len(thens) :
    LET t == thens[i]
    IN (t.state = "PendingPromise" /\ Settled(t.p)) =>
         /\ promise[t.p].state = "FulfilledPromise" =>
              CalledOnce(t.onFulfilled, promise[t.p].value, promise[t.p].at)
                /\ CallsOf(t.onRejected) = <<>>
         /\ promise[t.p].state = "RejectedPromise" =>
              CalledOnce(t.onRejected, promise[t.p].value, promise[t.p].at)
                /\ CallsOf(t.onFulfilled) = <<>>

\* two reactions queued on one pending promise, which then settled in a later turn
C3_Witness ==
  \E i, j \in 1..Len(thens) :
    /\ i < j
    /\ thens[i].p = thens[j].p
    /\ thens[j].state = "PendingPromise"
    /\ Settled(thens[i].p)
    /\ promise[thens[i].p].at > thens[j].turn
    /\ CallsOf(thens[i].onFulfilled) \o CallsOf(thens[i].onRejected) # <<>>
    /\ CallsOf(thens[j].onFulfilled) \o CallsOf(thens[j].onRejected) # <<>>

\* what the first call of a resolver settles the promise to, when that call
\* carries a plain value or a reason
FirstCallOutcome(s) ==
  IF s.op = "resolve" THEN [state |-> "FulfilledPromise", value |-> s.v]
  ELSE [state |-> "RejectedPromise", value |-> s.v]

FirstCallWins ==
  \A p \in DOMAIN resolvers :
    (resolvers[p] # NoCall /\ resolvers[p].v.k # "SyncPromise") =>
      /\ promise[p].state = FirstCallOutcome(resolvers[p]).state
      /\ promise[p].value = FirstCallOutcome(resolvers[p]).value

SettledIsImmutable ==
  \A p \in 1..Len(promise) :
    Settled(p) => /\ promise'[p].state = promise[p].state
                  /\ promise'[p].value = promise[p].value

\* C4: a fulfilled or rejected promise keeps its state and value in every later
\* state; of the calls a resolver makes to resolve and reject (in its body, after
\* it returned, or followed by a throw) only the first has effect, and adopt
\* never runs on a promise that has left the pending state.
C4_SettledNeverChanges ==
  /\ [](FirstCallWins /\ ~readopted)
  /\ [][SettledIsImmutable]_vars

\* a promise was settled by its resolver's first call, and a later turn called
\* its resolve or reject again
C4_Witness ==
  \E p \in DOMAIN resolvers :
    /\ resolvers[p] # NoCall
    /\ Settled(p)
    /\ promise[p].called
    /\ turn > promise[p].at + 1
    /\ Len(promise) = 1

----------------------------------------------------------------------------
(* One transaction, the application using it, and the host driving it *)

MaxRuns == 2
MaxStores == 2
MaxDepth == 2

Modes == {"readonly", "readwrite", "versionchange"}

\* what the callback of run does
Callbacks ==
  [beh : {"return"}, v : Results, d : {0}, end : {"return"}, on : {0}]
    \cup [beh : {"throw"}, v : Thrown, d : {0}, end : {"throw"}, on : {0}]
    \cup [beh : {"chain", "both"}, v : Results, d : 1..MaxDepth, end : {"return"}, on : {0}]
    \cup [beh : {"chain", "both"}, v : Thrown, d : 1..MaxDepth, end : {"throw"}, on : {0}]
    \cup [beh : {"fire"}, v : Results, d : {1}, end : {"return"}, on : {0}]

\* what the callback of a further run would do
Again == {b \in Callbacks : b.beh \in {"return", "chain"} /\ b.d <= 1 /\ b.end = "return"}

\* the database is opened (upgrade transaction) or db.transaction(..) is called:
\* the host transaction is active until the creating task returns
Opened(mode) ==
  [promise |-> <<>>, queue |-> <<>>, fns |-> <<>>, calls |-> <<>>, req |-> <<>>,
   idb |-> [mode |-> mode, state |-> "active", outcome |-> "none",
            requests |-> <<>>, oncomplete |-> NoFn, onerror |-> NoFn,
            onabort |-> NoFn, abortFired |-> FALSE],
   tx |-> NoTransaction, stores |-> 0, trace |-> <<>>,
   cursor |-> NoCursor, arrays |-> <<>>, guards |-> <<>>,
   readopted |-> FALSE, hung |-> FALSE, turn |-> 0]

Created(mode, class) == Transaction(Opened(mode), class)

\* the heap w and nothing called yet
Start(w) ==
  /\ promise = w.promise /\ queue = w.queue /\ fns = w.fns /\ calls = w.calls
  /\ req = w.req /\ idb = w.idb /\ tx = w.tx /\ stores = w.stores /\ trace = w.trace
  /\ cursor = w.cursor /\ arrays = w.arrays /\ guards = w.guards
  /\ readopted = w.readopted /\ hung = w.hung /\ turn = w.turn
  /\ resolvers = <<>>
  /\ thens = <<>>
  /\ runs = <<>>
  /\ opened = {}

Init ==
  \E mode \in Modes, class \in {"Transaction", "VersionChangeTransaction"} :
    /\ class = "VersionChangeTransaction" => mode = "versionchange"
    /\ Start(Created(mode, class))

\* .then(onFulfilled, onRejected) on what run returned, if it returned
subscribe(h, r) ==
  IF r.ok THEN [then(r.w, r.val.n, UserFn(h + 1), UserFn(h + 2)) EXCEPT !.val = r.val] ELSE r

Ran(h, t) ==
  /\ Commit(t.w)
  /\ runs' = Append(runs, [callback |-> h, onFulfilled |-> h + 1, onRejected |-> h + 2,
                           threw |-> ~t.ok, val |-> t.val, turn |-> turn])

\* tx.run(callback).then(onFulfilled, onRejected)
CallRun ==
  /\ ~hung
  /\ Len(runs) < MaxRuns
  /\ \E b \in IF runs = <<>> THEN Callbacks ELSE Again :
       LET h == Len(fns) + 1
           w0 == [World EXCEPT !.fns = @ \o <<b, [b EXCEPT !.beh = "return", !.v = Undefined],
                                               [b EXCEPT !.beh = "return", !.v = Undefined]>>]
       IN Ran(h, subscribe(h, run(w0, UserFn(h))))
  /\ UNCHANGED <<resolvers, thens, opened>>

\* tx.objectStore(name), outside any callback: a call within the current turn
CallObjectStore ==
  /\ ~hung
  /\ stores < MaxStores
  /\ LET r == objectStore(World)
         o == [ran |-> Len(runs) > 0, state |-> idb.state, threw |-> ~r.ok, val |-> r.val,
               made |-> r.w.stores - stores]
     IN /\ r.ok \/ o \notin opened
        /\ Commit([r.w EXCEPT !.turn = @ - 1])
        /\ opened' = opened \cup {o}
  /\ UNCHANGED <<resolvers, thens, runs>>

\* the task that created the transaction returns to the event loop
EndTurn ==
  /\ idb.state = "active"
  /\ Commit(endDispatch(World))
  /\ UNCHANGED <<resolvers, thens, runs, opened>>

\* the host completes the oldest pending request and dispatches its success event
HostSuccess ==
  /\ idb.state = "inactive"
  /\ idb.requests # <<>>
  /\ LET r == Head(idb.requests)
         w1 == Log(hostSucceed(World, r), "success", r, Undefined)
     IN Commit(endDispatch(fire(w1, w1.req[r].onsuccess, EventRef(r))))
  /\ UNCHANGED <<resolvers, thens, runs, opened>>

\* an error event at request r: it bubbles to the transaction
errorEvent(w, r) == fire(fire(w, w.req[r].onerror, EventRef(r)), w.idb.onerror, EventRef(r))

\* an error event nobody cancelled aborts the transaction
abortUnlessAborted(w) ==
  IF w.idb.state = "active" THEN [w EXCEPT !.idb.state = "finished", !.idb.outcome = "aborted"]
  ELSE w

\* the oldest pending request fails: error event, and the transaction aborts
\* unless a handler already aborted it
HostError ==
  /\ idb.state = "inactive"
  /\ idb.requests # <<>>
  /\ LET r == Head(idb.requests)
         w1 == Log([World EXCEPT !.req[r].readyState = "done", !.req[r].error = Err(r),
                                 !.idb.requests = Tail(@), !.idb.state = "active"],
                   "error", r, Undefined)
     IN Commit(abortUnlessAborted(errorEvent(w1, r)))
  /\ UNCHANGED <<resolvers, thens, runs, opened>>

\* a request still pending when the transaction aborted gets an error event with AbortError
HostAbortedRequest ==
  /\ idb.outcome = "aborted"
  /\ idb.requests # <<>>
  /\ LET r == Head(idb.requests)
         w1 == Log([World EXCEPT !.req[r].readyState = "done", !.req[r].error = AbortError,
                                 !.idb.requests = Tail(@)],
                   "error", r, Undefined)
     IN Commit(errorEvent(w1, r))
  /\ UNCHANGED <<resolvers, thens, runs, opened>>

\* the abort event of an aborted transaction
HostAbortEvent ==
  /\ idb.outcome = "aborted"
  /\ idb.requests = <<>>
  /\ ~idb.abortFired
  /\ Commit(fire(Log([World EXCEPT !.idb.abortFired = TRUE], "abort event", 0, Undefined),
                 idb.onabort, EventRef(0)))
  /\ UNCHANGED <<resolvers, thens, runs, opened>>

\* the transaction has committed: complete event
HostComplete ==
  /\ idb.state = "committing"
  /\ Commit(fire(Log([World EXCEPT !.idb.state = "finished", !.idb.outcome = "committed"],
                     "complete", 0, Undefined),
                 idb.oncomplete, Undefined))
  /\ UNCHANGED <<resolvers, thens, runs, opened>>

\* db.transaction('test', 'readwrite', { aborted }) of src/transaction.js, with or
\* without a recovery handler (which returns nothing, or 5)
InitOptions ==
  \E fs \in {<<>>} \cup {<<[beh |-> "return", v |-> v, d |-> 0, end |-> "return", on |-> 0]>> :
                            v \in {Undefined, Num(5)}} :
    Start(TransactionOptions([Opened("readwrite") EXCEPT !.fns = fs],
                             IF fs = <<>> THEN NoFn ELSE UserFn(1)))

\* what the callback given to run does there
OptionsCallbacks ==
  [beh : {"return", "abort", "abort.later", "fire", "fire.abort"}, v : Results, d : {0}, end : {"return"}, on : {0}]
    \cup [beh : {"chain"}, v : Results, d : {1}, end : {"return"}, on : {0}]

\* tx.run(callback).then(onFulfilled, onRejected), once
CallRunOptions ==
  /\ runs = <<>>
  /\ \E b \in OptionsCallbacks :
       LET h == Len(fns) + 1
           w0 == [World EXCEPT !.fns = @ \o <<b, [b EXCEPT !.beh = "return", !.v = Undefined],
                                               [b EXCEPT !.beh = "return", !.v = Undefined]>>]
       IN Ran(h, subscribe(h, runOptions(w0, UserFn(h))))
  /\ UNCHANGED <<resolvers, thens, opened>>

NextOptions ==
  \/ CallRunOptions
  \/ EndTurn
  \/ HostSuccess
  \/ HostError
  \/ HostAbortedRequest
  \/ HostAbortEvent
  \/ HostComplete

SpecOptions == InitOptions /\ [][NextOptions]_vars

\* tx.run(callback).then(onFulfilled, onRejected), once, on the Transaction that
\* has no abort handling, with a callback that places one request or two and
\* aborts in the handler of the first, aborts itself, or places one and returns
CallRunAborting ==
  /\ runs = <<>>
  /\ \E beh \in {"abort.later", "abort.two", "fire", "abort", "fire.abort"} :
       LET h == Len(fns) + 1
           b == [beh |-> beh, v |-> Num(2), d |-> 0, end |-> "return", on |-> 0]
           w0 == [World EXCEPT !.fns = @ \o <<b, [b EXCEPT !.beh = "return", !.v = Undefined],
                                               [b EXCEPT !.beh = "return", !.v = Undefined]>>]
       IN Ran(h, subscribe(h, run(w0, UserFn(h))))
  /\ UNCHANGED <<resolvers, thens, opened>>

NextAbort ==
  \/ CallRunAborting
  \/ EndTurn
  \/ HostSuccess
  \/ HostError
  \/ HostAbortedRequest
  \/ HostAbortEvent
  \/ HostComplete

SpecAbort == Init /\ [][NextAbort]_vars

Next ==
  \/ CallRun
  \/ CallObjectStore
  \/ EndTurn
  \/ HostSuccess
  \/ HostError
  \/ HostAbortedRequest
  \/ HostAbortEvent
  \/ HostComplete

Spec == Init /\ [][Next]_vars

----------------------------------------------------------------------------
(* One cursor iteration inside run *)

MaxRecords == 4

\* what the iterator does at every step
Iterators ==
  [beh : {"iter.end"}, v : {Num(k) : k \in 0..2}, d : {0},
   end : {"return", "false", "throw", "false.after", "throw.after"}, on : {0}]
    \cup [beh : {"iter.once"}, v : {Num(1)}, d : {0}, end : {"return", "false"}, on : {0}]
    \cup [beh : {"iter.sync"}, v : {Num(k) : k \in 0..2}, d : {1},
          end : {"return", "false", "throw"}, on : {0}]
    \cup [beh : {"iter.late"}, v : {Num(k) : k \in 0..2}, d : 1..MaxDepth,
          end : {"return", "false", "throw"}, on : {0}]
    \cup [beh : {"iter.fire"}, v : {Num(0)}, d : {0}, end : {"return"}, on : {0}]

\* a readwrite transaction on a store of n records
InitCursor ==
  \E n \in 0..MaxRecords :
    Start([Created("readwrite", "Transaction") EXCEPT !.cursor.n = n])

\* tx.run(tx => tx.objectStore(name).openCursor().iterate(iterator)).then(onFulfilled, onRejected),
\* or the same with while
OpenCursor ==
  /\ runs = <<>>
  /\ \E how \in {"iterate", "while"} : \E it \in Iterators :
       LET h == Len(fns) + 1
           cb == [beh |-> how, v |-> Undefined, d |-> 0, end |-> "return", on |-> 0]
           probe == [cb EXCEPT !.beh = "return"]
       IN Ran(h, subscribe(h, run([World EXCEPT !.fns = @ \o <<cb, probe, probe, it>>],
                                  UserFn(h))))
  /\ UNCHANGED <<resolvers, thens, opened>>

\* new Request(request) on the request of the store that was placed last, once it
\* is done; each request is wrapped again at most once
WrapDone ==
  /\ req # <<>>
  /\ req[Len(req)].readyState = "done"
  /\ Len(req) # cursor.request
  /\ \A k \in DOMAIN trace : trace[k].e = "wrap" => trace[k].a # Len(req)
  /\ Commit(Log(Request(World, Len(req)).w, "wrap", Len(req), PromiseRef(Len(promise) + 1)))
  /\ UNCHANGED <<resolvers, thens, runs, opened>>

NextCursor ==
  \/ OpenCursor
  \/ WrapDone
  \/ EndTurn
  \/ HostSuccess
  \/ HostError
  \/ HostAbortedRequest
  \/ HostAbortEvent
  \/ HostComplete

SpecCursor == InitCursor /\ [][NextCursor]_vars

----------------------------------------------------------------------------
(* Properties of Transaction and of Requests inside run *)

\* request r has been completed successfully by the host, in turn t
SucceededIn(r, t) ==
  \E k \in DOMAIN trace : trace[k].e = "success" /\ trace[k].a = r /\ trace[k].turn = t

Succeeded(r) == \E k \in DOMAIN trace : trace[k].e = "success" /\ trace[k].a = r

\* application function h is a then-handler attached to a Request
IsHandler(h) == fns[h].on # 0

\* C1: a follow-up request issued by a then-handler attached to request r1 is issued
\* in the turn in which the host dispatched r1's success event; no such handler ever
\* finds the transaction inactive; and a handler that issues a follow-up has issued it
\* by the end of that dispatch.
C1_FollowUpIssuedDuringDispatch ==
  /\ \A r2 \in DOMAIN req :
       req[r2].by # 0 /\ IsHandler(req[r2].by) => SucceededIn(fns[req[r2].by].on, req[r2].at)
  /\ \A k \in DOMAIN trace : trace[k].e = "inactive" => ~IsHandler(trace[k].a)
  /\ \A h \in DOMAIN fns :
       IsHandler(h) /\ fns[h].beh = "chain" /\ Succeeded(fns[h].on)
         => \E r2 \in DOMAIN req : req[r2].by = h

C1_Witness ==
  \E r2 \in DOMAIN req :
    /\ req[r2].by # 0
    /\ IsHandler(req[r2].by)
    /\ Succeeded(r2)
    /\ idb.outcome = "committed"

C6_SecondRunThrows ==
  /\ \A i \in DOMAIN runs :
       i > 1 => /\ runs[i].threw
                /\ runs[i].val = IF tx.class = "Transaction" THEN AlreadyRun ELSE TypeError
                /\ CallsOf(runs[i].callback) = <<>>
  /\ \A i, j \in DOMAIN runs :
       CallsOf(runs[i].callback) # <<>> /\ CallsOf(runs[j].callback) # <<>> => i = j
  /\ \A i \in DOMAIN runs : Len(CallsOf(runs[i].callback)) <= 1

C6_Witness ==
  /\ Len(runs) >= 2
  /\ ~runs[1].threw
  /\ CallsOf(runs[1].callback) # <<>>
  /\ runs[2].threw
  /\ runs[2].val = AlreadyRun

\* C7: when run is called in the turn that created the transaction and the callback
\* threw e or its promise rejected with e (run's rejection handler was invoked with e),
\* abort was called on the host transaction in that turn
\* and the onRejected handler attached to run's promise was called once, with e, in
\* that same turn.
C7_RejectionAbortsAndPropagates ==
  \A k \in DOMAIN trace :
    trace[k].e = "run.onRejected" /\ runs[1].turn = 0
      => /\ \E m \in DOMAIN trace :
              trace[m].e \in {"abort", "abortThrew"} /\ trace[m].turn = trace[k].turn
         /\ \A i \in DOMAIN runs :
              ~runs[i].threw => CalledOnce(runs[i].onRejected, trace[k].v, trace[k].turn)

\* C8: objectStore called outside a callback on a readonly or readwrite Transaction on
\* which run was not called throws (the wrapper's own Error while the transaction is
\* not finished) and constructs no ObjectStore; on a versionchange transaction that is
\* not finished it returns and constructs one.
C8_ObjectStoreNeedsRun ==
  \A o \in opened :
    /\ (tx.class = "Transaction" /\ idb.mode # "versionchange" /\ ~o.ran)
         => /\ o.threw
            /\ o.made = 0
            /\ o.state # "finished" => o.val = OutsideRun
    /\ (idb.mode = "versionchange" /\ o.state # "finished") => ~o.threw /\ o.made = 1

C8_Witness ==
  \E o \in opened :
    /\ tx.class = "Transaction"
    /\ idb.mode = "readwrite"
    /\ ~o.ran
    /\ o.threw
    /\ o.val = OutsideRun

----------------------------------------------------------------------------
(* Cursor iteration: the claims *)

\* the iterator given to iterate or while, and the numbers of the calls made to it
Iterator == runs[1].callback + 3

IteratorCalls == {i \in DOMAIN calls : calls[i].fn = Iterator}

\* the calls at which the value a step returned settled: the iterator's own call when
\* it returns a plain value, otherwise the call of the last handler of the chain of
\* requests it returned
Settlings ==
  IF fns[Iterator].d = 0 THEN IteratorCalls
  ELSE {i \in DOMAIN calls : calls[i].fn > Iterator /\ fns[calls[i].fn].beh = "iter.end"}

\* the numbers of steps begun, settled and pushed when c application calls had been made
Begun(c) == Cardinality({i \in IteratorCalls : i <= c})

SettledBy(c) == Cardinality({i \in Settlings : i <= c})

Pushed(c) == Cardinality({k \in DOMAIN trace : trace[k].e = "push" /\ trace[k].c <= c})

\* C9: in iterate and while, when the iterator is called for a further step the value
\* every earlier step returned has settled and has been appended to the results; and
\* when the wrapper advances the cursor itself, the value of every step begun has settled.
C9_NextStepWaitsForSettledResult ==
  runs # <<>> =>
    /\ \A j \in IteratorCalls :
         /\ SettledBy(j - 1) >= Begun(j - 1)
         /\ Pushed(j - 1) >= Begun(j - 1)
    /\ \A k \in DOMAIN trace :
         trace[k].e = "advance" /\ trace[k].a = 0 => SettledBy(trace[k].c) >= Begun(trace[k].c)

\* a second step after a first whose value settled in a later turn than it was returned
C9_Witness ==
  /\ runs # <<>>
  /\ fns[runs[1].callback].beh = "iterate"
  /\ fns[Iterator].beh = "iter.late"
  /\ fns[Iterator].d = 2
  /\ Begun(Len(calls)) >= 2
  /\ idb.outcome = "committed"

\* the records an iterator advancing by k visits among n
Visited(n, k) == [i \in 1..(IF n = 0 THEN 0 ELSE (n - 1) \div k + 1) |-> 1 + (i - 1) * k]

\* the argument with which the onFulfilled handler of run(..).then was called
Fulfilments == {i \in DOMAIN calls : calls[i].fn = runs[1].onFulfilled}

\* the cursors the iterator was called with, in order
RECURSIVE Positions(_)
Positions(c) ==
  IF c = 0 THEN <<>>
  ELSE IF calls[c].fn = Iterator THEN Append(Positions(c - 1), calls[c].arg.n)
  ELSE Positions(c - 1)

\* C10: when iterate over n records, with an iterator that advances by k at every step
\* and resolves to the ordinal of the record, has fulfilled, the iterator has been
\* called on the records 1, 1+k, 1+2k, .. once each and in order, and the results are
\* these ordinals in that order.
C10_IterateVisitsEveryKth ==
  \A i \in (IF runs = <<>> THEN {} ELSE Fulfilments) :
    (/\ fns[runs[1].callback].beh = "iterate"
     /\ fns[Iterator].beh # "iter.once"
     /\ fns[Iterator].v.n >= 1
     /\ fns[Iterator].end = "return")
      => /\ Positions(Len(calls)) = Visited(cursor.n, fns[Iterator].v.n)
         /\ arrays[calls[i].arg.n] = [x \in DOMAIN Visited(cursor.n, fns[Iterator].v.n) |->
                                        Num(Visited(cursor.n, fns[Iterator].v.n)[x])]

\* the iterator, or a handler it chained, advanced the cursor during the step begun
\* by call j
AdvancedAt(j) ==
  \E k \in DOMAIN trace :
    /\ trace[k].e = "advance"
    /\ trace[k].a # 0
    /\ trace[k].c >= j
    /\ \A j2 \in IteratorCalls : j2 > j => j2 > trace[k].c

\* the value the step begun by call j resolves to, when it resolves
StepValue(j) == EndValue(fns[Iterator], calls[j].arg.n)

\* the wrapper made a new Request on the cursor's request after c application calls
NextRequestSince(c) == \E k \in DOMAIN trace : trace[k].e = "next" /\ trace[k].c >= c

Last(s) == s[Len(s)]

\* C11: in iterate, a step during which neither the iterator nor a handler it chained
\* advanced the cursor is the last one: the iterator is not called again, the wrapper
\* makes no new Request on the cursor's request, and when the iteration fulfils the
\* value of that step is the last entry of the results.
C11_NoAdvanceEndsIteration ==
  (runs # <<>> /\ fns[runs[1].callback].beh = "iterate") =>
    \A j \in IteratorCalls :
      ~AdvancedAt(j) =>
        /\ \A j2 \in IteratorCalls : j2 <= j
        /\ ~NextRequestSince(j)
        /\ \A i \in Fulfilments :
             /\ arrays[calls[i].arg.n] # <<>>
             /\ Last(arrays[calls[i].arg.n]) = StepValue(j)

\* an iterator that advanced at the first record and not at the second, over 3 or more
C11_Witness ==
  /\ runs # <<>>
  /\ fns[runs[1].callback].beh = "iterate"
  /\ fns[Iterator].beh = "iter.once"
  /\ cursor.n >= 3
  /\ Begun(Len(calls)) = 2
  /\ \E i \in Fulfilments : arrays[calls[i].arg.n] = <<Num(1), Num(2)>>

\* the host reported end-of-range (null) on the cursor's request
EndOfRange == cursor.request # 0 /\ cursor.pos > cursor.n

\* the calls of the onRejected handler of run(..).then
Rejects == {i \in DOMAIN calls : calls[i].fn = runs[1].onRejected}

\* no request failed and the iterator does not throw
NoFailure ==
  /\ fns[Iterator].end \notin {"throw", "throw.after"}
  /\ \A k \in DOMAIN trace : trace[k].e \notin {"error", "inactive"}

\* the values of the steps begun, in order
StepValues ==
  [x \in DOMAIN Positions(Len(calls)) |->
     EndValue(fns[Iterator], Positions(Len(calls))[x])]

\* C12: in iterate and while the iterator is only ever called with a cursor at one of
\* the n records, never for end-of-range; over an empty range it is never called and
\* the iteration fulfils with the empty sequence; and when end-of-range was reached
\* after some steps (nothing having failed) the iteration does not reject and fulfils
\* with the values of the steps made, in order.
C12_EndOfRangeFulfilsWithResults ==
  runs # <<>> =>
    /\ \A j \in IteratorCalls : calls[j].arg.k = "Cursor" /\ calls[j].arg.n \in 1..cursor.n
    /\ cursor.n = 0 =>
         /\ IteratorCalls = {}
         /\ \A i \in Fulfilments : arrays[calls[i].arg.n] = <<>>
    /\ (EndOfRange /\ NoFailure) =>
         /\ Rejects = {}
         /\ \A i \in Fulfilments : arrays[calls[i].arg.n] = StepValues

\* the calls that threw the iterator's error: calls of the iterator itself, or of the
\* last handler of the chain it returned
ThrowingCalls ==
  IF fns[Iterator].d = 0 THEN {j \in IteratorCalls : Throws(fns[Iterator], calls[j].arg.n)}
  ELSE {i \in Settlings : fns[Iterator].end = "throw"}

\* C13: when the iterator of iterate or while throws e at some step, or the promise it
\* returned rejects with e, the iteration rejects with e within that same call; the
\* iterator is not called again, the wrapper neither advances nor pushes nor makes a
\* new Request afterwards, and no results are delivered.
C13_IteratorErrorRejectsIteration ==
  runs # <<>> =>
    \A t \in ThrowingCalls :
      /\ \E k \in DOMAIN trace :
           trace[k].e = "run.onRejected" /\ trace[k].v = IteratorError /\ trace[k].c = t
      /\ \A j \in IteratorCalls : j <= t
      /\ \A k \in DOMAIN trace :
           (trace[k].e \in {"push", "next"} \/ (trace[k].e = "advance" /\ trace[k].a = 0))
             => trace[k].c < t
      /\ Fulfilments = {}

\* a while whose iterator returned at the first record and threw at the second
C13_Witness ==
  /\ runs # <<>>
  /\ fns[runs[1].callback].beh = "while"
  /\ fns[Iterator].end = "throw.after"
  /\ fns[Iterator].v.n = 0
  /\ Begun(Len(calls)) = 2
  /\ \E i \in Rejects : calls[i].arg = IteratorError

\* call s settled the value returned by the step begun by call j
SettledAt(j, s) ==
  /\ s \in Settlings
  /\ s >= j
  /\ \A j2 \in IteratorCalls : j2 > j => j2 > s

\* the advances the wrapper itself issued during the step begun by call j
WrapperAdvances(j) ==
  {k \in DOMAIN trace : /\ trace[k].e = "advance"
                        /\ trace[k].a = 0
                        /\ trace[k].c >= j
                        /\ \A j2 \in IteratorCalls : j2 > j => j2 > trace[k].c}

\* C14: in while, for every step whose value has settled to something other than false
\* and during which the iterator did not advance, the wrapper has issued exactly one
\* continue, within the call that settled the value; and an iterator that never
\* advances and never resolves to false has, when the iteration fulfils over n records,
\* been called once on each record in order, the results being its n values.
C14_WhileContinuesAutomatically ==
  (runs # <<>> /\ fns[runs[1].callback].beh = "while") =>
    /\ \A j \in IteratorCalls : \A s \in Settlings :
         (/\ SettledAt(j, s)
          /\ ~AdvancedAt(j)
          /\ ~Throws(fns[Iterator], calls[j].arg.n)
          /\ StepValue(j) # False)
           => /\ Cardinality(WrapperAdvances(j)) = 1
              /\ \A k \in WrapperAdvances(j) : trace[k].c = s /\ trace[k].v = Num(1)
    /\ (fns[Iterator].v.n = 0 /\ fns[Iterator].end = "return") =>
         \A i \in Fulfilments :
           /\ Positions(Len(calls)) = [x \in 1..cursor.n |-> x]
           /\ arrays[calls[i].arg.n] = [x \in 1..cursor.n |-> Num(x)]

\* a while over 3 records whose iterator returns a promise and never advances
C14_Witness ==
  /\ runs # <<>>
  /\ fns[runs[1].callback].beh = "while"
  /\ fns[Iterator].beh = "iter.late"
  /\ fns[Iterator].v.n = 0
  /\ fns[Iterator].end = "return"
  /\ cursor.n = 3
  /\ \E i \in Fulfilments : Len(arrays[calls[i].arg.n]) = 3

\* the sequence s without its last entry
Front(s) == SubSeq(s, 1, Len(s) - 1)

\* C15: in while, a step whose value settled to false and during which the iterator did
\* not advance is the last one: the wrapper issues no continue for it, the iterator is
\* not called again, and when the iteration fulfils the results are the values of the
\* earlier steps, without that false.
C15_FalseWithoutAdvanceStops ==
  (runs # <<>> /\ fns[runs[1].callback].beh = "while") =>
    \A j \in IteratorCalls : \A s \in Settlings :
      (/\ SettledAt(j, s)
       /\ ~AdvancedAt(j)
       /\ ~Throws(fns[Iterator], calls[j].arg.n)
       /\ StepValue(j) = False)
        => /\ WrapperAdvances(j) = {}
           /\ \A j2 \in IteratorCalls : j2 <= j
           /\ \A i \in Fulfilments : arrays[calls[i].arg.n] = Front(StepValues)

\* a while whose iterator returned the ordinal at the first record and false at the second
C15_Witness ==
  /\ runs # <<>>
  /\ fns[runs[1].callback].beh = "while"
  /\ fns[Iterator].end = "false.after"
  /\ fns[Iterator].v.n = 0
  /\ cursor.n >= 3
  /\ Begun(Len(calls)) = 2
  /\ \E i \in Fulfilments : arrays[calls[i].arg.n] = <<Num(1)>>

\* the last step made resolved to false without the iterator having advanced
LastStepPreempted ==
  \E j \in IteratorCalls :
    /\ \A j2 \in IteratorCalls : j2 <= j
    /\ ~AdvancedAt(j)
    /\ StepValue(j) = False

\* C16: when a while has fulfilled, every step during which the iterator advanced and
\* whose value was false was followed by a further step (unless the advance led past
\* the last record), and the results hold the value of every step made, the falses of
\* steps with an advance included; only the false of a last step without an advance
\* is missing.
C16_FalseWithAdvanceIsKept ==
  (runs # <<>> /\ fns[runs[1].callback].beh = "while") =>
    \A i \in Fulfilments :
      /\ \A j \in IteratorCalls :
           (AdvancedAt(j) /\ StepValue(j) = False)
             => \/ \E j2 \in IteratorCalls : j2 > j
                \/ calls[j].arg.n + fns[Iterator].v.n > cursor.n
      /\ arrays[calls[i].arg.n] = IF LastStepPreempted THEN Front(StepValues) ELSE StepValues

\* C17: in while, the wrapper issues no continue of its own for a step during which the
\* iterator (or a handler it chained) advanced the cursor; and an iterator that calls
\* continue() at every step has, when the iteration fulfils over n records, been
\* called once on each record in order.
C17_NoSecondAdvance ==
  (runs # <<>> /\ fns[runs[1].callback].beh = "while") =>
    /\ \A j \in IteratorCalls : AdvancedAt(j) => WrapperAdvances(j) = {}
    /\ (fns[Iterator].v.n = 1 /\ fns[Iterator].beh # "iter.once") =>
         \A i \in Fulfilments : Positions(Len(calls)) = [x \in 1..cursor.n |-> x]

----------------------------------------------------------------------------
(* Request: the claims *)

\* the requests on which a Request was constructed while they were pending, and the
\* promise_ of that Request
Wrapped == {r \in DOMAIN req : req[r].onsuccess.f = "resolveWithResult"}

PromiseOf(r) == promise[req[r].onsuccess.a]

Failed(r) == \E k \in DOMAIN trace : trace[k].e = "error" /\ trace[k].a = r

\* C18: the promise of a Request constructed on a pending request is pending as long as
\* the request is; once the host has fired the success event it is fulfilled with the
\* request's result, once the host has fired the error event it is rejected with the
\* request's error, in a later turn than the one that issued the request; and a
\* then-handler attached when the request was issued is called in a later turn, with
\* the request's result.
C18_RequestSettlesWithHostOutcome ==
  /\ \A r \in Wrapped :
       /\ req[r].readyState = "pending" => PromiseOf(r).state = "PendingPromise"
       /\ (req[r].readyState = "done" /\ req[r].error = Null)
            => /\ Succeeded(r)
               /\ PromiseOf(r).state = "FulfilledPromise"
               /\ PromiseOf(r).value = req[r].result
               /\ PromiseOf(r).at > req[r].at
       /\ (req[r].readyState = "done" /\ req[r].error # Null)
            => /\ Failed(r)
               /\ PromiseOf(r).state = "RejectedPromise"
               /\ PromiseOf(r).value = req[r].error
               /\ PromiseOf(r).at > req[r].at
  /\ \A i \in DOMAIN calls :
       IsHandler(calls[i].fn)
         => /\ calls[i].turn > req[fns[calls[i].fn].on].at
            /\ calls[i].arg = req[fns[calls[i].fn].on].result

\* one request fulfilled and its handler called, another rejected with the host's error
C18_Witness ==
  /\ \E i \in DOMAIN calls : IsHandler(calls[i].fn) /\ Succeeded(fns[calls[i].fn].on)
  /\ \E r \in Wrapped : Failed(r) /\ PromiseOf(r).value = Err(r)

\* C19: a Request constructed on a request that is already done has its promise settled
\* when the constructor returns - rejected with the request's error if it has one,
\* fulfilled with its result otherwise - and has not installed itself as the
\* request's onsuccess or onerror handler.
C19_DoneRequestSettlesAtConstruction ==
  \A k \in DOMAIN trace :
    trace[k].e = "wrap" =>
      /\ promise[trace[k].v.n].at = trace[k].turn
      /\ req[trace[k].a].error # Null
           => /\ promise[trace[k].v.n].state = "RejectedPromise"
              /\ promise[trace[k].v.n].value = req[trace[k].a].error
      /\ req[trace[k].a].error = Null
           => /\ promise[trace[k].v.n].state = "FulfilledPromise"
              /\ promise[trace[k].v.n].value = req[trace[k].a].result
      /\ req[trace[k].a].onsuccess.a # trace[k].v.n
      /\ req[trace[k].a].onerror.a # trace[k].v.n

\* a Request constructed on a request that had failed
C19_Witness ==
  \E k \in DOMAIN trace :
    /\ trace[k].e = "wrap"
    /\ req[trace[k].a].error = Err(trace[k].a)
    /\ promise[trace[k].v.n].state = "RejectedPromise"

----------------------------------------------------------------------------
(* then: the claims about the promise it returns *)

\* the invocations of the handlers given to the i-th then call
Invoked(i) == CallsOf(thens[i].onFulfilled) \o CallsOf(thens[i].onRejected)

\* promise d has the state and the value of promise q
Same(d, q) == promise[d].state = promise[q].state /\ promise[d].value = promise[q].value

\* C20: once a handler given to then has been invoked - at the then call on a settled
\* receiver, or at the receiver's transition - the promise d that then returned is
\* rejected with e if the handler threw e, fulfilled with x if it returned a value x
\* that is not a thenable, and, if it returned a promise, has that promise's state
\* and value once that promise is settled.
C20_ThenSettlesWithHandlerOutcome ==
  \A i \in 1..Len(thens) :
    LET d == thens[i].deferred
        b == fns[thens[i].onFulfilled]
    IN Invoked(i) # <<>> =>
         /\ b.beh = "throw" =>
              promise[d].state = "RejectedPromise" /\ promise[d].value = b.v
         /\ (b.beh = "return" /\ b.v.k # "SyncPromise") =>
              promise[d].state = "FulfilledPromise" /\ promise[d].value = b.v
         /\ (b.beh = "return" /\ b.v.k = "SyncPromise" /\ Settled(b.v.n)) => Same(d, b.v.n)

\* promise d has the state and value of outcome o
Is(d, o) == promise[d].state = o.state /\ promise[d].value = o.value

\* what the then method of foreign thenable i does first
ThenableOutcome(i) == FirstCallOutcome(Thenables[i][1])

\* C21: a promise resolved with a foreign thenable - by its resolver's first call or
\* by a then-handler returning the thenable - has the state and value given by the
\* first call the thenable's then method made (a throw before any call counts as a
\* rejection); the later calls and a later throw change nothing, and no promise is
\* ever adopted a second time.
C21_ThenableFirstCallWins ==
  /\ ~readopted
  /\ \A p \in DOMAIN resolvers :
       resolvers[p].v.k = "thenable" => Is(p, ThenableOutcome(resolvers[p].v.n))
  /\ \A i \in 1..Len(thens) :
       (Invoked(i) # <<>> /\ fns[thens[i].onFulfilled].v.k = "thenable") =>
         Is(thens[i].deferred, ThenableOutcome(fns[thens[i].onFulfilled].v.n))

\* a promise resolved in a later turn with a thenable that fulfils and then rejects,
\* and a then-handler that returned a thenable that rejects and then fulfils
C21_Witness ==
  /\ \E p \in DOMAIN resolvers :
       /\ resolvers[p] = [op |-> "resolve", v |-> Thenable(1)]
       /\ promise[p].at > 1
  /\ \E i \in 1..Len(thens) :
       /\ Invoked(i) # <<>>
       /\ fns[thens[i].onFulfilled].v = Thenable(2)
       /\ promise[thens[i].deferred].state = "RejectedPromise"

\* C22: a promise whose resolve function was first called with the promise itself, and
\* a promise returned by then whose handler returned that very promise, is rejected
\* with the TypeError; it is not left pending.
C22_SelfResolutionRejects ==
  /\ \A p \in DOMAIN resolvers :
       resolvers[p] = [op |-> "resolve", v |-> PromiseRef(p)] =>
         Is(p, [state |-> "RejectedPromise", value |-> TypeError])
  /\ \A i \in 1..Len(thens) :
       (Invoked(i) # <<>> /\ fns[thens[i].onFulfilled].v = PromiseRef(thens[i].deferred)) =>
         Is(thens[i].deferred, [state |-> "RejectedPromise", value |-> TypeError])

\* both ways of self-resolution have happened
C22_Witness ==
  /\ \E p \in DOMAIN resolvers : resolvers[p] = [op |-> "resolve", v |-> PromiseRef(p)]
  /\ \E i \in 1..Len(thens) :
       Invoked(i) # <<>> /\ fns[thens[i].onFulfilled].v = PromiseRef(thens[i].deferred)

----------------------------------------------------------------------------
(* SyncPromise.all and SyncPromise.race: the claims *)

\* the calls of combinator e, the inputs of call k and the promise it returned
Combined(e) == {k \in DOMAIN trace : trace[k].e = e}
InputsOf(k) == arrays[trace[k].v.n]
Output(k) == trace[k].a

\* a plain input counts as a promise that is fulfilled at the call
InputState(x) == IF x.k = "SyncPromise" THEN promise[x.n].state ELSE "FulfilledPromise"
InputValue(x) == IF x.k = "SyncPromise" THEN promise[x.n].value ELSE x

\* the inputs of call k that are in state s
InState(k, s) == {i \in DOMAIN InputsOf(k) : InputState(InputsOf(k)[i]) = s}

\* the turn in which call k can first see its i-th input settled
SeenAt(k, i) ==
  IF InputsOf(k)[i].k = "SyncPromise" /\ promise[InputsOf(k)[i].n].at > trace[k].turn
    THEN promise[InputsOf(k)[i].n].at
  ELSE trace[k].turn

\* input i of call k settled no later than input j: inputs settled before the call
\* count as settling at the call, in input order
Earlier(k, i, j) ==
  \/ SeenAt(k, i) < SeenAt(k, j)
  \/ /\ SeenAt(k, i) = SeenAt(k, j)
     /\ IF SeenAt(k, i) = trace[k].turn THEN i <= j
        ELSE promise[InputsOf(k)[i].n].ord <= promise[InputsOf(k)[j].n].ord

\* C23: the promise of SyncPromise.all over a non-empty array of inputs that have all
\* fulfilled is fulfilled, since the turn the last of them fulfilled in, with the
\* array of their values in input order.
C23_AllFulfilsInInputOrder ==
  \A k \in Combined("all") :
    (InputsOf(k) # <<>> /\ InState(k, "FulfilledPromise") = DOMAIN InputsOf(k)) =>
      /\ promise[Output(k)].state = "FulfilledPromise"
      /\ promise[Output(k)].value.k = "Array"
      /\ arrays[promise[Output(k)].value.n] =
           [i \in DOMAIN InputsOf(k) |-> InputValue(InputsOf(k)[i])]
      /\ \E i \in DOMAIN InputsOf(k) :
           /\ promise[Output(k)].at = SeenAt(k, i)
           /\ \A j \in DOMAIN InputsOf(k) : SeenAt(k, j) <= SeenAt(k, i)

\* C24: once an input of SyncPromise.all is rejected, the promise of all is rejected
\* with the reason of the input that rejected first, since the turn that input
\* rejected in, whatever the other inputs have done.
C24_AllRejectsWithFirstRejection ==
  \A k \in Combined("all") :
    InState(k, "RejectedPromise") # {} =>
      \E i \in InState(k, "RejectedPromise") :
        /\ \A j \in InState(k, "RejectedPromise") : Earlier(k, i, j)
        /\ promise[Output(k)].state = "RejectedPromise"
        /\ promise[Output(k)].value = InputValue(InputsOf(k)[i])
        /\ promise[Output(k)].at = SeenAt(k, i)

\* C25: once an input of SyncPromise.race is settled, the promise of race has the
\* state and value of the input that settled first - of the first in input order
\* among those settled at the call - since the turn that input settled in.
C25_RaceSettlesWithFirstSettled ==
  \A k \in Combined("race") :
    LET settled == DOMAIN InputsOf(k) \ InState(k, "PendingPromise")
    IN settled # {} =>
         \E i \in settled :
           /\ \A j \in settled : Earlier(k, i, j)
           /\ promise[Output(k)].state = InputState(InputsOf(k)[i])
           /\ promise[Output(k)].value = InputValue(InputsOf(k)[i])
           /\ promise[Output(k)].at = SeenAt(k, i)

----------------------------------------------------------------------------
(* then without a handler: the claim *)

\* the then calls that were given no onFulfilled, no onRejected
NoOnFulfilled == {i \in 1..Len(thens) : thens[i].onFulfilled = 0}
NoOnRejected == {i \in 1..Len(thens) : thens[i].onRejected = 0}

\* C26: the promise of a then call that was given no onFulfilled is fulfilled with
\* the receiver's value once the receiver is fulfilled, and the promise of a then
\* call that was given no onRejected is rejected with the receiver's reason once the
\* receiver is rejected, in the turn the receiver settled in (or of the call), and
\* without any handler of that call being invoked.
C26_MissingHandlersPassThrough ==
  /\ \A i \in NoOnFulfilled :
       promise[thens[i].p].state = "FulfilledPromise" =>
         /\ Same(thens[i].deferred, thens[i].p)
         /\ promise[thens[i].deferred].at \in {promise[thens[i].p].at, thens[i].turn}
         /\ Invoked(i) = <<>>
  /\ \A i \in NoOnRejected :
       promise[thens[i].p].state = "RejectedPromise" =>
         /\ Same(thens[i].deferred, thens[i].p)
         /\ promise[thens[i].deferred].at \in {promise[thens[i].p].at, thens[i].turn}
         /\ Invoked(i) = <<>>

\* a rejection that went in a later turn through a then(f) link and reached the
\* handler given to catch, and a fulfilment that went through a catch link
C26_Witness ==
  /\ \E i, k \in 1..Len(thens) :
       /\ i \in NoOnRejected /\ k \in NoOnFulfilled
       /\ thens[i].onFulfilled # 0 /\ thens[k].onRejected # 0
       /\ thens[k].p = thens[i].deferred
       /\ thens[i].state = "PendingPromise"
       /\ CallsOf(thens[k].onRejected) # <<>>
       /\ CallsOf(thens[k].onRejected)[1].arg = promise[thens[i].p].value
  /\ \E m \in NoOnFulfilled :
       thens[m].onRejected # 0 /\ promise[thens[m].deferred].state = "FulfilledPromise"

----------------------------------------------------------------------------
(* Abort and recovery: the claims about src/transaction.js *)

\* an abort-recovery handler was given to the transaction
Recovering == fns # <<>> /\ idb.onabort = Fn("recoverWith", tx.promise_, Num(1))

\* the callback of run i has fulfilled
CallbackFulfilled(i) == \E k \in DOMAIN trace : trace[k].e = "run.onFulfilled"

\* the promise run i returned has fulfilled with v, once, and has not rejected
RunFulfilledWith(i, v) ==
  /\ Len(CallsOf(runs[i].onFulfilled)) = 1
  /\ CallsOf(runs[i].onFulfilled)[1].arg = v
  /\ CallsOf(runs[i].onRejected) = <<>>

\* the promise run i returned has rejected, once, and has not fulfilled
RunRejected(i) ==
  /\ Len(CallsOf(runs[i].onRejected)) = 1
  /\ CallsOf(runs[i].onFulfilled) = <<>>

C28_RecoveryFulfilsRun ==
  Recovering =>
    \A i \in DOMAIN runs :
      CallbackFulfilled(i) =>
        /\ idb.abortFired => RunFulfilledWith(i, fns[1].v)
        /\ idb.outcome = "committed" => RunFulfilledWith(i, fns[runs[i].callback].v)

----------------------------------------------------------------------------
(* run on the upgrade transaction: the claim *)

\* C29: every call of run on the versionchange transaction throws to its caller
\* ('Transaction has already run.' on a Transaction, a TypeError on the
\* VersionChangeTransaction, which has no run method) and no callback is ever
\* invoked; a Transaction in that mode has ran_ set from its construction on.
C29_UpgradeTransactionCannotRun ==
  idb.mode = "versionchange"
    => /\ tx.class = "Transaction" => tx.ran_
       /\ \A i \in DOMAIN runs :
            /\ runs[i].threw
            /\ runs[i].val = IF tx.class = "Transaction" THEN AlreadyRun ELSE TypeError
            /\ CallsOf(runs[i].callback) = <<>>
            /\ CallsOf(runs[i].onFulfilled) = <<>>
            /\ CallsOf(runs[i].onRejected) = <<>>

C29_Witness ==
  /\ idb.mode = "versionchange"
  /\ tx.class = "Transaction"
  /\ Len(runs) = MaxRuns
  /\ \A i \in DOMAIN runs : runs[i].threw /\ runs[i].val = AlreadyRun
  /\ idb.outcome = "committed"

----------------------------------------------------------------------------
(* Cursor.update and Cursor.delete inside a step: the claim *)

\* C30: in iterate, an iterator that only calls cursor.update(..) or cursor.delete()
\* is called once, at the first record: the call is not an advance, the cursor's
\* request stays done and the cursor stays where it was, the wrapper makes no new
\* Request on the cursor's request, and when the iteration fulfils (over a store that
\* is not empty) the iterator was called once and the results hold the value of that
\* one step.
C30_UpdateDoesNotAdvance ==
  (/\ runs # <<>>
   /\ fns[runs[1].callback].beh = "iterate"
   /\ fns[Iterator].beh = "iter.fire")
    => /\ Cardinality(IteratorCalls) <= 1
       /\ \A j \in IteratorCalls :
            /\ calls[j].arg = CursorRef(1)
            /\ ~AdvancedAt(j)
            /\ ~NextRequestSince(j)
            /\ req[cursor.request].readyState = "done"
            /\ cursor.pos = 1
            /\ \E r \in DOMAIN req : r # cursor.request
       /\ \A i \in Fulfilments :
            /\ cursor.n > 0 => Cardinality(IteratorCalls) = 1
            /\ arrays[calls[i].arg.n] = IF cursor.n > 0 THEN <<Num(1)>> ELSE <<>>

C30_Witness ==
  /\ runs # <<>>
  /\ fns[runs[1].callback].beh = "iterate"
  /\ fns[Iterator].beh = "iter.fire"
  /\ cursor.n >= 2
  /\ Cardinality(IteratorCalls) = 1
  /\ \E r \in DOMAIN req : r # cursor.request /\ req[r].readyState = "done" /\ req[r].error = Null
  /\ idb.outcome = "committed"
  /\ \E i \in Fulfilments : arrays[calls[i].arg.n] = <<Num(1)>>

----------------------------------------------------------------------------
(* A promise resolved with a promise: the claim *)

\* promise p was resolved with promise q: by the first call its resolver (or the
\* application, with the kept resolve) made, or by a handler of the then call that
\* returned p
ResolvedWith(p, q) ==
  /\ p # q
  /\ \/ /\ p \in DOMAIN resolvers
        /\ resolvers[p] = [op |-> "resolve", v |-> PromiseRef(q)]
     \/ \E i \in DOMAIN thens :
          /\ thens[i].deferred = p
          /\ Invoked(i) # <<>>
          /\ fns[thens[i].onFulfilled] =
               [beh |-> "return", v |-> PromiseRef(q), d |-> 0, end |-> "return", on |-> 0]

\* the handler of then call j that matches the state of promise q
Matching(j, q) ==
  IF promise[q].state = "FulfilledPromise" THEN thens[j].onFulfilled ELSE thens[j].onRejected

\* C31: whenever promise p was resolved with a promise q and q is settled, p has q's
\* state and value, and every then call made on p so far has had its matching
\* handler invoked, once, with q's value.
C31_AdoptedPromiseFollows ==
  \A p, q \in Promises :
    (ResolvedWith(p, q) /\ Settled(q))
      => /\ Same(p, q)
         /\ \A j \in DOMAIN thens :
              thens[j].p = p
                => /\ Len(Invoked(j)) = 1
                   /\ Invoked(j)[1].fn = Matching(j, q)
                   /\ Invoked(j)[1].arg = promise[q].value

----------------------------------------------------------------------------
(* An explicit advance inside a step: the claim *)

\* C32: when an iterate in which nothing failed has fulfilled, every step during
\* which the iterator (or a handler it chained) advanced the cursor by k from record
\* pos was followed by a step on record pos + k, unless pos + k is past the end of
\* the range.
C32_AdvanceIsDelivered ==
  (/\ runs # <<>>
   /\ fns[runs[1].callback].beh = "iterate"
   /\ NoFailure
   /\ Fulfilments # {})
    => \A j \in IteratorCalls :
         AdvancedAt(j)
           => \/ calls[j].arg.n + fns[Iterator].v.n > cursor.n
              \/ \E j2 \in IteratorCalls :
                   j2 > j /\ calls[j2].arg = CursorRef(calls[j].arg.n + fns[Iterator].v.n)

----------------------------------------------------------------------------
(* The order of reactions: the claim *)

\* a handler of the registration with handlers h and h + 1 has been invoked
Reacted(h) == \E c \in DOMAIN calls : calls[c].fn \in {h, h + 1}

\* the first invocation of a handler of that registration
Reaction(h) == CHOOSE c \in DOMAIN calls :
                 /\ calls[c].fn \in {h, h + 1}
                 /\ \A c2 \in DOMAIN calls : calls[c2].fn \in {h, h + 1} => c <= c2

\* C33: of two then calls on the same promise, whenever the handler of the later one
\* has been invoked the handler of the earlier one was invoked before it.
C33_ReactionsRunInRegistrationOrder ==
  \A k1, k2 \in DOMAIN trace :
    (/\ k1 < k2
     /\ trace[k1].e = "then"
     /\ trace[k2].e = "then"
     /\ trace[k1].a = trace[k2].a
     /\ Reacted(trace[k2].v.n))
      => /\ Reacted(trace[k1].v.n)
         /\ Reaction(trace[k1].v.n) < Reaction(trace[k2].v.n)

----------------------------------------------------------------------------
(* run and the error event of the transaction: the claim *)

\* the error events dispatched so far
ErrorEvents == {k \in DOMAIN trace : trace[k].e = "error"}

\* the error of the request whose error event reached the transaction first
FirstError == req[trace[CHOOSE k \in ErrorEvents : \A k2 \in ErrorEvents : k <= k2].a].error

\* C34: when the callback of run has fulfilled and an error event has reached the
\* transaction, the completion promise is rejected with the error of the first such
\* event, and the promise run returned has rejected with that error, once, and has
\* not fulfilled.
C34_ErrorEventRejectsRun ==
  \A i \in DOMAIN runs :
    (~runs[i].threw /\ CallbackFulfilled(i) /\ ErrorEvents # {})
      => /\ promise[tx.promise_].state = "RejectedPromise"
         /\ promise[tx.promise_].value = FirstError
         /\ RunRejected(i)
         /\ CallsOf(runs[i].onRejected)[1].arg = FirstError

C34_Witness ==
  /\ runs # <<>>
  /\ fns[runs[1].callback].beh = "fire"
  /\ CallbackFulfilled(1)
  /\ ErrorEvents # {}
  /\ idb.outcome = "aborted"
  /\ RunRejected(1)
  /\ CallsOf(runs[1].onRejected)[1].arg = Err(1)

----------------------------------------------------------------------------
(* run settles after the requests of its callback: the claim *)

\* the handlers the application attached to requests
RequestHandlers == {h \in DOMAIN fns : fns[h].on > 0}

\* request r had completed (success or error event) before application call j
CompletedBefore(r, j) ==
  \E k \in DOMAIN trace :
    trace[k].e \in {"success", "error"} /\ trace[k].a = r /\ trace[k].c < j

\* C35: at every invocation of the onFulfilled handler attached to the promise run
\* returned, each request placed in the transaction had completed and each handler
\* attached to one of these requests had run.
C35_RunFulfilsAfterRequests ==
  \A i \in DOMAIN runs : \A j \in DOMAIN calls :
    calls[j].fn = runs[i].onFulfilled
      => /\ \A r \in DOMAIN req : CompletedBefore(r, j)
         /\ \A h \in RequestHandlers : \E c \in 1..(j - 1) : calls[c].fn = h

C35_Witness ==
  /\ runs # <<>>
  /\ fns[runs[1].callback].beh = "both"
  /\ Len(req) >= 3
  /\ CallsOf(runs[1].onFulfilled) # <<>>
  /\ \A h \in RequestHandlers : CallsOf(h) # <<>>

----------------------------------------------------------------------------
(* The run state only moves forward: the claim *)

\* the invocations of callbacks given to run
CallbackCalls == {j \in DOMAIN calls : \E i \in DOMAIN runs : calls[j].fn = runs[i].callback}

\* the complete event had been dispatched before turn t
CompletedBy(t) == \E k \in DOMAIN trace : trace[k].e = "complete" /\ trace[k].turn < t

\* at most one callback invocation, none after the complete event, and every run
\* called after the complete event threw to its caller
RunOnce ==
  /\ Cardinality(CallbackCalls) <= 1
  /\ \A j \in CallbackCalls : ~CompletedBy(calls[j].turn)
  /\ \A i \in DOMAIN runs :
       CompletedBy(runs[i].turn)
         => /\ runs[i].threw
            /\ runs[i].val = IF tx.class = "Transaction" THEN AlreadyRun ELSE TypeError
            /\ CallsOf(runs[i].callback) = <<>>

\* C36: no step clears the ran flag of the transaction, and in every reachable state
\* the callbacks given to run have been invoked at most once in all, never after the
\* complete event, a run called after that event having thrown to its caller.
C36_RunStateMovesForward == [][tx.ran_ => tx.ran_']_vars /\ []RunOnce

\* run is first called on a transaction the host has already completed
C36_Witness ==
  /\ tx.class = "Transaction"
  /\ idb.mode # "versionchange"
  /\ runs # <<>>
  /\ CompletedBy(runs[1].turn)
  /\ runs[1].threw
  /\ runs[1].val = AlreadyRun
  /\ calls = <<>>

----------------------------------------------------------------------------
(* objectStore after the transaction has finished: the claim *)

\* C37: every call of objectStore made outside a callback once the host transaction
\* had finished (its complete event, or its abort) threw to its caller and made no
\* ObjectStore; after a run it threw the host's InvalidStateError.
C37_ObjectStoreAfterCompletionThrows ==
  \A o \in opened :
    o.state = "finished"
      => /\ o.threw
         /\ o.made = 0
         /\ o.ran => o.val = InvalidStateError

\* objectStore called after a run whose transaction committed
C37_Witness ==
  /\ idb.outcome = "committed"
  /\ \E k \in DOMAIN trace : trace[k].e = "complete"
  /\ runs # <<>>
  /\ ~runs[1].threw
  /\ CallsOf(runs[1].onFulfilled) # <<>>
  /\ \E o \in opened : o.state = "finished" /\ o.ran /\ o.threw /\ o.val = InvalidStateError

----------------------------------------------------------------------------
(* abort() in a request handler, without abort handling: the claim *)

\* abort() was called by a handler attached to a request
AbortedByHandler ==
  \E k \in DOMAIN trace :
    /\ trace[k].e = "abort"
    /\ trace[k].c > 0
    /\ calls[trace[k].c].fn \in RequestHandlers
    /\ fns[calls[trace[k].c].fn].beh = "abort"

====
